---- MODULE Spec2Model ----
(***************************************************************************)
(* A model of mensagod: the per-connection login state machine of main.go, *)
(* the failure/lockout tracker and the identity store of package dbhandler *)
(* and the keycard table written by AddEntry.                              *)
(*                                                                         *)
(* The database is an external, persistent store: nothing in the program   *)
(* creates or empties its tables, so the rows present when the server      *)
(* starts are an input.  Time is counted in minutes.                       *)
(***************************************************************************)
EXTENDS Integers, Sequences, FiniteSets, TLC

VARIABLES
    sessions,      \* connection -> sessionState of its worker
    workspaces,    \* table workspaces: wid -> row
    prereg,        \* table prereg: set of rows
    devices,       \* table iwkspc_devices: set of rows
    failure_log,   \* table failure_log: set of rows
    keycards,      \* table keycards: set of rows
    now,           \* the clock, in minutes
    last,          \* the last request handled and the reply written for it
    attempts,      \* history: wrong PASSWORD attempts per <<wid, source>>
    aliases,       \* table aliases: set of rows
    card,          \* a keycard entry in memory (an EntryBase)
    atb,           \* an AlgoString in memory
    pending,       \* client -> the operation it has under way and its result
    redeemed,      \* history: the redemptions that succeeded
    plain,         \* history: wid -> the password SetPassword stored last
    running,       \* the server process has not ended
    peer,          \* connection -> "open", or "closed" once the client
                   \* has closed its end
    config,        \* the configuration: the registration_wordcount of the
                   \* file, the one in use, and the workspace_dir
    anpath         \* a LocalAnPath in memory

vars == <<sessions, workspaces, prereg, devices, failure_log, keycards, now,
          last, attempts, aliases, card, atb, pending,
          redeemed, plain, running, peer, config, anpath>>

\* main.go, line 167: the default of global.workspace_dir
DefaultWorkspaceDir == "/var/anselus/"

\* A LocalAnPath no path was assigned to
NoPath == [Path |-> "", LocalPath |-> ""]

----------------------------------------------------------------------------
(* Bounds of the model *)

MaxFailures == 2        \* security.max_failures
LockoutDelay == 1       \* security.lockout_delay_min
MaxTime == 2            \* the clock stops here
MaxSessionFailures == 2 \* cap on sessionState.PasswordFailures
MaxCards == 2           \* cap on the number of rows of table keycards

Conns == {"c1"}
RemoteAddr == [c \in Conns |-> "ip1"]
Sources == {"ip1", "ip2"}
Wids == {"w1", "w2", "w3"}
Passwords == {"p1", "p2"}
DevIds == {"d1"}
DevKeys == {"k1", "k2"}
FailTypes == {"workspace", "password", "recipient"}

NoLock == -1            \* lockout_until holding the empty string

----------------------------------------------------------------------------
(* main.go: the session *)

loginNoSession == 0
loginAwaitingPassword == 1
loginAwaitingSessionID == 2
loginClientSession == 3

\* The fields of sessionState the handlers use; open stands for Connection.
sessionState ==
    [open : BOOLEAN, PasswordFailures : 0..(MaxSessionFailures + 1),
     LoginState : loginNoSession..loginClientSession,
     IsTerminating : BOOLEAN, WID : Wids \cup {""}]

\* A worker that starts its session as already logged in
NewSessionLoggedIn ==
    [open |-> TRUE, PasswordFailures |-> 0, LoginState |-> loginClientSession,
     IsTerminating |-> FALSE, WID |-> ""]

\* connectionWorker, lines 362-364: the zero value with LoginState set
NewSession ==
    [open |-> TRUE, PasswordFailures |-> 0, LoginState |-> loginNoSession,
     IsTerminating |-> FALSE, WID |-> ""]

----------------------------------------------------------------------------
(* Go strings, as the keycard and dbhandler packages use them *)

HasPrefix(s, prefix) ==
    Len(s) >= Len(prefix) /\ SubSeq(s, 1, Len(prefix)) = prefix

HasSuffix(s, suffix) ==
    Len(s) >= Len(suffix)
    /\ SubSeq(s, Len(s) - Len(suffix) + 1, Len(s)) = suffix

\* strings.Index: the offset of the first sep in s, -1 when there is none
Index(s, sep) ==
    LET hits == {i \in 1..(Len(s) - Len(sep) + 1) :
                   SubSeq(s, i, i + Len(sep) - 1) = sep}
    IN  IF hits = {} THEN -1
        ELSE (CHOOSE i \in hits : \A j \in hits : i <= j) - 1

\* strings.SplitN: at most n parts, the last one the unsplit rest; every
\* part when n < 0
RECURSIVE SplitN(_, _, _)
SplitN(s, sep, n) ==
    IF n = 0 THEN <<>>
    ELSE IF n = 1 \/ Index(s, sep) < 0 THEN <<s>>
    ELSE LET i == Index(s, sep)
         IN  <<SubSeq(s, 1, i)>>
             \o SplitN(SubSeq(s, i + Len(sep) + 1, Len(s)), sep, n - 1)

Split(s, sep) == SplitN(s, sep, -1)

Spaces == {" ", "\t", "\n", "\r"}

RECURSIVE TrimSpace(_)
TrimSpace(s) ==
    IF s = "" THEN s
    ELSE IF SubSeq(s, 1, 1) \in Spaces THEN TrimSpace(SubSeq(s, 2, Len(s)))
    ELSE IF SubSeq(s, Len(s), Len(s)) \in Spaces
    THEN TrimSpace(SubSeq(s, 1, Len(s) - 1))
    ELSE s

\* bytes.Join of a list of strings
RECURSIVE Join(_, _)
Join(ss, sep) ==
    IF ss = <<>> THEN ""
    ELSE IF Len(ss) = 1 THEN ss[1]
    ELSE ss[1] \o sep \o Join(Tail(ss), sep)

UpperCase == "ABCDEFGHIJKLMNOPQRSTUVWXYZ"
LowerCase == "abcdefghijklmnopqrstuvwxyz"

\* strings.ToLower
RECURSIVE ToLower(_)
ToLower(s) ==
    IF s = "" THEN ""
    ELSE IF Len(s) = 1
    THEN IF \E i \in 1..Len(UpperCase) : SubSeq(UpperCase, i, i) = s
         THEN LET i == CHOOSE j \in 1..Len(UpperCase) :
                          SubSeq(UpperCase, j, j) = s
              IN  SubSeq(LowerCase, i, i)
         ELSE s
    ELSE ToLower(SubSeq(s, 1, Len(s) \div 2))
         \o ToLower(SubSeq(s, Len(s) \div 2 + 1, Len(s)))

----------------------------------------------------------------------------
(* dbhandler: password hashing *)

ArgonVersion == 19

\* argon2.IDKey: the tag is a function of all six of its arguments
IDKey(password, salt, iterations, ram, threads, keyLen) ==
    <<"tag", password, salt, iterations, ram, threads, keyLen>>

\* What rand.Read leaves in place of a salt when it returns an error
RandFailed == "rand.Read: error"

\* The stored string "$argon2id$v=..$m=..,t=..,p=..$salt$tag" is kept as the
\* list of its "$"-separated parts, which is what verifyHash works on.  When
\* rand.Read fails the function returns the empty string, whose list of
\* parts is the one empty part.
hashPassword(password, mode, salt) ==
    LET enhanced == (ToLower(mode) = "enhanced")
        argonRAM == IF enhanced THEN 1073741824 ELSE 65536
        argonIterations == IF enhanced THEN 10 ELSE 3
        argonThreads == IF enhanced THEN 8 ELSE 4
        argonKeyLength == IF enhanced THEN 48 ELSE 32
    IN  IF salt = RandFailed THEN <<"">>
        ELSE <<"", "argon2id", ArgonVersion,
               <<argonRAM, argonIterations, argonThreads>>, salt,
               IDKey(password, salt, argonIterations, argonRAM, argonThreads,
                     argonKeyLength)>>

\* A verifyHash that hashes with the cost of the standard mode, whatever
\* the stored string says
verifyHashStandard(password, hashPass) ==
    IF Len(hashPass) # 6 THEN [ok |-> FALSE, err |-> TRUE]
    ELSE IF hashPass[3] # ArgonVersion THEN [ok |-> FALSE, err |-> TRUE]
    ELSE LET salt == hashPass[5]
             savedHash == hashPass[6]
             passhash == IDKey(password, salt, 3, 65536, 4, 32)
         IN  [ok |-> (passhash = savedHash), err |-> FALSE]

\* verifyHash returns (match, error)
verifyHash(password, hashPass) ==
    IF Len(hashPass) # 6 THEN [ok |-> FALSE, err |-> TRUE]
    ELSE IF hashPass[3] # ArgonVersion THEN [ok |-> FALSE, err |-> TRUE]
    ELSE LET ramUsage == hashPass[4][1]
             iterations == hashPass[4][2]
             parallelism == hashPass[4][3]
             salt == hashPass[5]
             savedHash == hashPass[6]
             passhash == IDKey(password, salt, iterations, ramUsage,
                               parallelism, savedHash[7])
         IN  [ok |-> (passhash = savedHash), err |-> FALSE]

----------------------------------------------------------------------------
(* dbhandler: the failure log *)

\* The columns of table failure_log (spec.md, sections 3 and 6).
FailureLogColumns ==
    {"type", "id", "source", "count", "last_failure", "lockout_until"}

\* A statement naming a column the table lacks is rejected by the database.
StatementOK(columns) == columns \subseteq FailureLogColumns

\* LogFailure(failType, id, source) on table fl at time t: the possible
\* results [err, fl].
LogFailure(fl, failType, id, source, t) ==
    IF failType \notin FailTypes THEN {[err |-> TRUE, fl |-> fl]}
    ELSE IF source \notin Sources THEN {[err |-> TRUE, fl |-> fl]}
    ELSE
      LET selected == {r \in fl : r.type = failType /\ r.source = source}
      IN
      IF selected = {}
      THEN \* row.Scan failed: failCount is still 0 and is incremented
        LET failCount == 0 + 1 IN
        IF failCount >= MaxFailures
        THEN \* lockout.Add(delay) discards its result: lockout stays t
          IF StatementOK({"count", "last_failure", "lockout_until", "type",
                          "source", "id"})
          THEN {[err |-> FALSE,
                 fl |-> {IF r.type = failType /\ r.source = source /\ r.id = id
                         THEN [r EXCEPT !.count = failCount,
                                        !.last_failure = t,
                                        !.lockout_until = t]
                         ELSE r : r \in fl}]}
          ELSE {[err |-> TRUE, fl |-> fl]}
        ELSE \* UPDATE ... WHERE type=$3 AND source=$4 and wid=$5
          IF StatementOK({"count", "last_failure", "type", "source", "wid"})
          THEN {[err |-> FALSE, fl |-> fl]}
          ELSE {[err |-> TRUE, fl |-> fl]}
      ELSE \* row.Scan succeeded: INSERT INTO failure_log(type, source, wid, ..)
        IF StatementOK({"type", "source", "wid", "count", "last_failure"})
        THEN {[err |-> FALSE,
               fl |-> fl \cup {[type |-> failType, source |-> source,
                                id |-> "", count |-> r.count,
                                last_failure |-> t, lockout_until |-> NoLock]
                               : r \in selected}]}
        ELSE {[err |-> TRUE, fl |-> fl]}

\* CheckLockout(failType, id, source) on table fl at time t: the possible
\* results [locktime, err, fl].  QueryRow takes the first row the database
\* returns, any of the selected ones.
CheckLockout(fl, failType, id, source, t) ==
    LET selected == {r \in fl : r.id = id /\ r.source = source} IN
    IF selected = {} THEN {[locktime |-> NoLock, err |-> FALSE, fl |-> fl]}
    ELSE
      {IF r.lockout_until = NoLock
       THEN [locktime |-> NoLock, err |-> FALSE, fl |-> fl]
       ELSE IF r.lockout_until < t
       THEN \* DELETE ... WHERE failtype=$1 AND source=$2 AND lockout_until=$3
         IF StatementOK({"failtype", "source", "lockout_until"})
         THEN [locktime |-> NoLock, err |-> FALSE,
               fl |-> {x \in fl : ~(x.type = failType /\ x.source = source
                                    /\ x.lockout_until = r.lockout_until)}]
         ELSE [locktime |-> NoLock, err |-> TRUE, fl |-> fl]
       ELSE [locktime |-> r.lockout_until, err |-> FALSE, fl |-> fl]
       : r \in selected}

----------------------------------------------------------------------------
(* dbhandler: workspaces and devices *)

\* CheckWorkspace(wid): the possible results [exists, status]
CheckWorkspace(ws, pr, wid) ==
    LET rows == {r \in ws : r.wid = wid} IN
    IF rows # {} THEN {[exists |-> TRUE, status |-> r.status] : r \in rows}
    ELSE IF \E r \in pr : r.wid = wid
         THEN {[exists |-> TRUE, status |-> "approved"]}
         ELSE {[exists |-> FALSE, status |-> ""]}

\* CheckPassword(wid, password): the possible results [ok, err]
CheckPassword(ws, wid, password) ==
    LET rows == {r \in ws : r.wid = wid} IN
    IF rows = {} THEN {[ok |-> FALSE, err |-> TRUE]}
    ELSE {verifyHash(password, r.password) : r \in rows}

\* INSERT into a table whose key is the columns key (spec.md, section 6): a
\* row with the key of a stored row is rejected
InsertRow(table, row, key) ==
    IF \E r \in table : \A k \in key : r[k] = row[k]
    THEN [err |-> TRUE, table |-> table]
    ELSE [err |-> FALSE, table |-> table \cup {row}]

CheckDevice(dev, wid, devid, devkey) ==
    \E r \in dev : r.wid = wid /\ r.devid = devid /\ r.devkey = devkey

\* AddDevice: [err, table]
AddDevice(dev, wid, devid, devkey, status) ==
    InsertRow(dev, [wid |-> wid, devid |-> devid, devkey |-> devkey,
                    status |-> status], {"wid", "devid"})

\* UpdateDevice(wid, devid, oldkey, newkey): [err, table].  Exec gives no
\* error when the UPDATE matches no row.
UpdateDevice(dev, wid, devid, oldkey, newkey) ==
    [err |-> FALSE,
     table |-> {IF r.wid = wid /\ r.devid = devid /\ r.devkey = oldkey
                THEN [r EXCEPT !.devkey = newkey]
                ELSE r : r \in dev}]

\* ValidateUUID: the wids of the model stand for the strings of UUID form
UUIDs == Wids \cup {"w4"}

ValidateUUID(uuid) == uuid \in UUIDs

Alnum ==
    {"a", "b", "c", "d", "e", "f", "g", "h", "i", "j", "k", "l", "m", "n",
     "o", "p", "q", "r", "s", "t", "u", "v", "w", "x", "y", "z", "A", "B",
     "C", "D", "E", "F", "G", "H", "I", "J", "K", "L", "M", "N", "O", "P",
     "Q", "R", "S", "T", "U", "V", "W", "X", "Y", "Z", "0", "1", "2", "3",
     "4", "5", "6", "7", "8", "9"}

\* MatchString of ([a-zA-Z0-9]+\.)+[a-zA-Z0-9]+ : some dot of s stands
\* between two alphanumerics
MatchDomain(s) ==
    \E i \in 2..(Len(s) - 1) :
       /\ SubSeq(s, i, i) = "."
       /\ SubSeq(s, i - 1, i - 1) \in Alnum
       /\ SubSeq(s, i + 1, i + 1) \in Alnum

\* MatchString of [\"]|[[:space:]] : s has a quote or white space
MatchQuoteOrSpace(s) ==
    \E i \in 1..Len(s) : SubSeq(s, i, i) \in Spaces \cup {"\""}

\* The columns of table aliases (spec.md 3 and 8, S5)
AliasColumns == {"wid_alias", "wid_target"}

\* ResolveAddress(addr) on tables ws and al: the possible results
\* [wid, err].  QueryRow gives the first row the database returns.
ResolveAddress(ws, al, addr) ==
    LET parts == Split(addr, "/")
        failed == [wid |-> "", err |-> TRUE]
    IN
    IF Len(parts) # 2 THEN {failed}
    ELSE IF ~MatchDomain(parts[2]) THEN {failed}
    ELSE IF MatchQuoteOrSpace(parts[1]) THEN {failed}
    ELSE IF ValidateUUID(parts[1])
    THEN LET rows == {r \in ws : r.wid = parts[1]} IN
         IF rows = {} THEN {failed}
         ELSE UNION
           {IF r.wtype = "alias"
            THEN \* SELECT wid FROM aliases WHERE wid=$1
              IF {"wid"} \subseteq AliasColumns
              THEN LET hits == {a \in al : a.wid = parts[1]} IN
                   IF hits = {} THEN {failed}
                   ELSE {[wid |-> a.wid, err |-> FALSE] : a \in hits}
              ELSE {failed}
            ELSE {[wid |-> addr, err |-> FALSE]}
            : r \in rows}
    ELSE LET rows == {r \in ws : r.uid = parts[1]} IN
         IF rows = {} THEN {failed}
         ELSE {[wid |-> r.wid, err |-> FALSE] : r \in rows}

\* UPDATE table SET the columns of set WHERE wid=$1
UpdateWid(table, wid, set) ==
    {IF r.wid = wid
     THEN [c \in DOMAIN r |-> IF c \in DOMAIN set THEN set[c] ELSE r[c]]
     ELSE r : r \in table}

\* SetPassword(wid, password) with the security.password_security mode
\* configured at the call and the salt hashPassword draws: [err, table]
SetPassword(ws, wid, password, mode, salt) ==
    IF Len(password) > 128 THEN [err |-> TRUE, table |-> ws]
    ELSE [err |-> FALSE,
          table |-> UpdateWid(ws, wid,
                              [password |->
                                 hashPassword(password, mode, salt)])]

\* SetWorkspaceStatus(wid, status): [err, table]
SetWorkspaceStatus(ws, wid, status) ==
    LET realStatus == ToLower(status) IN
    IF realStatus = "awaiting" THEN [err |-> TRUE, table |-> ws]
    ELSE IF realStatus \notin {"active", "disabled", "approved"}
    THEN [err |-> TRUE, table |-> ws]
    ELSE IF ~ValidateUUID(wid) THEN [err |-> TRUE, table |-> ws]
    ELSE [err |-> FALSE, table |-> UpdateWid(ws, wid, [status |-> status])]

\* An AddWorkspace whose INSERT the table accepts whatever rows it holds
AddWorkspaceUnkeyed(ws, wid, uid, domain, password, status, wtype, salt) ==
    [err |-> FALSE,
     table |-> ws \cup {[wid |-> wid, uid |-> uid, domain |-> domain,
                         password |-> hashPassword(password, "normal", salt),
                         status |-> status, wtype |-> wtype]}]

\* AddWorkspace(wid, uid, domain, password, status, wtype) with the salt
\* hashPassword draws: [err, table]
AddWorkspace(ws, wid, uid, domain, password, status, wtype, salt) ==
    InsertRow(ws, [wid |-> wid, uid |-> uid, domain |-> domain,
                   password |-> hashPassword(password, "normal", salt),
                   status |-> status, wtype |-> wtype],
              {"wid"})

\* The password '-' of a removed workspace, as the list of its
\* "$"-separated parts
RemovedPassword == <<"-">>

\* RemoveWorkspace(wid): [err, table].  Its second statement empties the
\* workspace's rows of table iwkspc_folders, which the model leaves out.
RemoveWorkspace(ws, wid) ==
    [err |-> FALSE,
     table |-> UpdateWid(ws, wid, [password |-> RemovedPassword,
                                   status |-> "deleted"])]

----------------------------------------------------------------------------
(* dbhandler: preregistration *)

\* A PreregWorkspace that does not look for the uid before it inserts
PreregWorkspaceUnchecked(pr, wid, uid, domain, regcode) ==
    IF Len(wid) > 36 \/ Len(uid) > 128
    THEN [regcode |-> "", err |-> TRUE, table |-> pr]
    ELSE LET i == InsertRow(pr, [wid |-> wid, uid |-> uid, domain |-> domain,
                                 regcode |-> regcode], {"wid", "regcode"})
         IN  [regcode |-> regcode, err |-> i.err, table |-> i.table]

\* PreregWorkspace(wid, uid, domain, wordList, wordcount) with the code
\* diceware rolls: [regcode, err, table]
PreregWorkspace(pr, wid, uid, domain, regcode) ==
    IF Len(wid) > 36 \/ Len(uid) > 128
    THEN [regcode |-> "", err |-> TRUE, table |-> pr]
    ELSE IF Len(uid) > 0 /\ (\E r \in pr : r.uid = uid)
    THEN [regcode |-> "", err |-> TRUE, table |-> pr]
    ELSE LET i == InsertRow(pr, [wid |-> wid, uid |-> uid, domain |-> domain,
                                 regcode |-> regcode], {"wid", "regcode"})
         IN  [regcode |-> regcode, err |-> i.err, table |-> i.table]

\* CheckRegCode(id, domain, iswid, regcode): the possible results
\* [wid, uid, err], err being the text of the error and "" for none
CheckRegCode(pr, id, domain, iswid, regcode) ==
    IF iswid
    THEN LET rows == {r \in pr : r.regcode = regcode /\ r.domain = domain} IN
         IF rows = {}
         THEN {[wid |-> "", uid |-> "", err |-> "regcode not found"]}
         ELSE {IF r.wid = id THEN [wid |-> r.wid, uid |-> r.uid, err |-> ""]
               ELSE [wid |-> "", uid |-> "", err |-> "wid mismatch"]
               : r \in rows}
    ELSE LET rows == {r \in pr : r.regcode = regcode /\ r.uid = id
                                 /\ r.domain = domain} IN
         IF rows = {}
         THEN {[wid |-> "", uid |-> "", err |-> "regcode not found"]}
         ELSE {[wid |-> r.wid, uid |-> r.uid, err |-> ""] : r \in rows}

\* DeleteRegCode(id, domain, iswid, regcode): the table after it
DeleteRegCode(pr, id, domain, iswid, regcode) ==
    IF iswid
    THEN {r \in pr : ~(r.wid = id /\ r.regcode = regcode
                        /\ r.domain = domain)}
    ELSE {r \in pr : ~(r.uid = id /\ r.regcode = regcode
                        /\ r.domain = domain)}

----------------------------------------------------------------------------
(* main.go: the commands.  A handler maps the session s of a connection    *)
(* from address ip and a request req to its possible outcomes               *)
(* [s, code, fl, dev]: the session after it, the status code written to    *)
(* the client, and the tables failure_log and iwkspc_devices after it.     *)

Outcome(s, code, fl, dev) == [s |-> s, code |-> code, fl |-> fl, dev |-> dev]

\* The requests of the model
Requests ==
    [Action : {"LOGIN"}, wid : Wids]
    \cup [Action : {"PASSWORD"}, pw : Passwords]
    \cup [Action : {"DEVICE"}, devid : DevIds, devkey : DevKeys]
    \cup [Action : {"EXISTS"}, tokens : {1}, stat : {"ok"}]
    \cup [Action : {"EXISTS"}, tokens : {2}, stat : {"ok", "absent", "error"}]
    \cup [Action : {"ORGCARD", "USERCARD", "ADDENTRY", "ISCURRENT", "CANCEL",
                    "NOOP", "LOGOUT"}]

\* commandExists
commandExists(s, ip, req) ==
    IF s.LoginState # loginClientSession
    THEN {Outcome(s, 401, failure_log, devices)}
    ELSE IF req.tokens < 2
    THEN {Outcome(s, 400, failure_log, devices)}
    ELSE IF req.stat = "absent" THEN {Outcome(s, 404, failure_log, devices)}
    ELSE IF req.stat = "error" THEN {Outcome(s, 300, failure_log, devices)}
    ELSE {Outcome(s, 200, failure_log, devices)}

\* commandLogin (spec.md 4.7): LOGIN is a command of state NoSession
commandLogin(s, ip, req) ==
    IF s.LoginState # loginNoSession
    THEN {Outcome(s, 401, failure_log, devices)}
    ELSE
      {IF ~w.exists THEN Outcome(s, 404, failure_log, devices)
       ELSE IF w.status = "disabled"
       THEN Outcome([s EXCEPT !.IsTerminating = TRUE], 407, failure_log,
                    devices)
       ELSE IF l.err THEN Outcome(s, 300, l.fl, devices)
       ELSE IF l.locktime # NoLock
       THEN Outcome([s EXCEPT !.IsTerminating = TRUE], 407, l.fl, devices)
       ELSE Outcome([s EXCEPT !.WID = req.wid,
                              !.LoginState = loginAwaitingPassword],
                    200, l.fl, devices)
       : <<w, l>> \in CheckWorkspace(workspaces, prereg, req.wid)
                      \X CheckLockout(failure_log, "password", req.wid, ip,
                                      now)}

\* commandPassword (spec.md 4.7)
commandPassword(s, ip, req) ==
    IF s.LoginState # loginAwaitingPassword
    THEN {Outcome(s, 401, failure_log, devices)}
    ELSE
      {IF c.err THEN Outcome(s, 300, failure_log, devices)
       ELSE IF ~c.ok
       THEN Outcome([s EXCEPT !.PasswordFailures = @ + 1], 402, f.fl, devices)
       ELSE Outcome([s EXCEPT !.LoginState = loginAwaitingSessionID], 200,
                    failure_log, devices)
       : <<c, f>> \in CheckPassword(workspaces, s.WID, req.pw)
                      \X LogFailure(failure_log, "password", s.WID, ip, now)}

\* commandDevice (spec.md 4.7): verify a known device, enroll a new one
commandDevice(s, ip, req) ==
    IF s.LoginState # loginAwaitingSessionID
    THEN {Outcome(s, 401, failure_log, devices)}
    ELSE IF CheckDevice(devices, s.WID, req.devid, req.devkey)
    THEN {Outcome([s EXCEPT !.LoginState = loginClientSession], 200,
                  failure_log, devices)}
    ELSE LET a == AddDevice(devices, s.WID, req.devid, req.devkey, "active")
         IN  IF a.err THEN {Outcome(s, 402, failure_log, devices)}
             ELSE {Outcome([s EXCEPT !.LoginState = loginClientSession], 200,
                           failure_log, a.table)}

\* commandLogout (spec.md 4.7): LOGOUT closes the connection
commandLogout(s, ip, req) ==
    {Outcome([s EXCEPT !.IsTerminating = TRUE], 200, failure_log, devices)}

\* commandOrgCard (spec.md 4.7): a command of state ClientSession
commandOrgCard(s, ip, req) ==
    IF s.LoginState # loginClientSession
    THEN {Outcome(s, 401, failure_log, devices)}
    ELSE {Outcome(s, 200, failure_log, devices)}

\* commandUnrecognized (spec.md 6): the unrecognized-command response
commandUnrecognized(s, ip, req) ==
    {Outcome(s, 400, failure_log, devices)}

\* processCommand: the switch on Tokens[0]
processCommand(s, ip, req) ==
    CASE req.Action = "DEVICE" -> commandDevice(s, ip, req)
      [] req.Action = "EXISTS" -> commandExists(s, ip, req)
      [] req.Action = "LOGIN" -> commandLogin(s, ip, req)
      [] req.Action = "LOGOUT" -> commandLogout(s, ip, req)
      [] req.Action = "NOOP" -> {Outcome(s, 0, failure_log, devices)}
      [] req.Action = "ORGCARD" -> commandOrgCard(s, ip, req)
      [] req.Action = "PASSWORD" -> commandPassword(s, ip, req)
      [] OTHER -> commandUnrecognized(s, ip, req)

----------------------------------------------------------------------------
(* main.go: the connection worker *)

\* History: a wrong PASSWORD attempt for <<wid, source>> at time t
WrongPassword(s, o) == o.s.PasswordFailures # s.PasswordFailures

NoteAttempt(c, s, o) ==
    IF WrongPassword(s, o)
    THEN [attempts EXCEPT ![<<s.WID, RemoteAddr[c]>>] =
              [n |-> IF @.n < MaxFailures THEN @.n + 1 ELSE @.n, at |-> now]]
    ELSE attempts

\* main, line 353, and connectionWorker, lines 358-368: a connection is
\* accepted and its worker starts
Accept(c) ==
    /\ ~sessions[c].open
    /\ sessions' = [sessions EXCEPT ![c] = NewSession]
    /\ UNCHANGED <<aliases, card, atb, pending, redeemed, plain,
                   running, peer, config, anpath>>
    /\ UNCHANGED <<workspaces, prereg, devices, failure_log, keycards, now,
                   last, attempts>>

\* connectionWorker, lines 369-387: one turn of the loop that reads a
\* command other than QUIT; the worker ends when the command set
\* IsTerminating
Command(c, req) ==
    /\ sessions[c].open
    /\ \/ req.Action # "PASSWORD"
       \/ sessions[c].PasswordFailures < MaxSessionFailures
    /\ \E o \in processCommand(sessions[c], RemoteAddr[c], req) :
          /\ sessions' = [sessions EXCEPT ![c] =
                              [o.s EXCEPT !.open = ~o.s.IsTerminating]]
          /\ failure_log' = o.fl
          /\ devices' = o.dev
          /\ last' = [n |-> 1 - last.n, conn |-> c, req |-> req,
                      code |-> o.code, err |-> FALSE]
          /\ attempts' = NoteAttempt(c, sessions[c], o)
    /\ UNCHANGED <<aliases, card, atb, pending, redeemed, plain,
                   running, peer, config, anpath>>
    /\ UNCHANGED <<workspaces, prereg, keycards, now>>

\* connectionWorker, lines 377-379: QUIT leaves the loop
Quit(c) ==
    /\ sessions[c].open
    /\ sessions' = [sessions EXCEPT ![c].open = FALSE]
    /\ UNCHANGED <<aliases, card, atb, pending, redeemed, plain,
                   running, peer, config, anpath>>
    /\ UNCHANGED <<workspaces, prereg, devices, failure_log, keycards, now,
                   last, attempts>>

\* ReadClient, lines 114-119, and connectionWorker, lines 371-373: the read
\* deadline elapses
ReadTimeout(c) ==
    /\ sessions[c].open
    /\ sessions' = [sessions EXCEPT ![c].IsTerminating = TRUE,
                                    ![c].open = FALSE]
    /\ UNCHANGED <<aliases, card, atb, pending, redeemed, plain,
                   running, peer, config, anpath>>
    /\ UNCHANGED <<workspaces, prereg, devices, failure_log, keycards, now,
                   last, attempts>>

\* The clock advances
Tick ==
    /\ now < MaxTime
    /\ now' = now + 1
    /\ UNCHANGED <<aliases, card, atb, pending, redeemed, plain,
                   running, peer, config, anpath>>
    /\ UNCHANGED <<sessions, workspaces, prereg, devices, failure_log,
                   keycards, last, attempts>>

----------------------------------------------------------------------------
(* b85: the codec of the data part.  An encoded string has no colon, no   *)
(* space and no line break: the codec writes those of its input as "!c",  *)
(* "!s", "!r" and "!n", and "!" as "!!".                                    *)

RECURSIVE b85Encode(_)
b85Encode(s) ==
    IF s = "" THEN ""
    ELSE IF Len(s) = 1
    THEN CASE s = ":" -> "!c" [] s = " " -> "!s" [] s = "\r" -> "!r"
           [] s = "\n" -> "!n" [] s = "!" -> "!!" [] OTHER -> s
    ELSE b85Encode(SubSeq(s, 1, Len(s) \div 2))
         \o b85Encode(SubSeq(s, Len(s) \div 2 + 1, Len(s)))

\* Position i of s is the second character of a pair "!x": it follows an
\* odd number of "!"
Escaped(s, i) ==
    LET others == {j \in 1..(i - 1) : SubSeq(s, j, j) # "!"}
        run == IF others = {} THEN i - 1
               ELSE (i - 1) - (CHOOSE j \in others : \A k \in others : k <= j)
    IN  run % 2 = 1

\* What positions lo..hi of s decode to
RECURSIVE DecodeRange(_, _, _)
DecodeRange(s, lo, hi) ==
    IF lo > hi THEN ""
    ELSE IF lo = hi
    THEN LET c == SubSeq(s, lo, lo) IN
         IF Escaped(s, lo)
         THEN CASE c = "c" -> ":" [] c = "s" -> " " [] c = "r" -> "\r"
                [] c = "n" -> "\n" [] OTHER -> "!"
         ELSE IF c = "!" THEN "" ELSE c
    ELSE DecodeRange(s, lo, (lo + hi) \div 2)
         \o DecodeRange(s, (lo + hi) \div 2 + 1, hi)

\* b85.Decode: [bytes, err]
b85Decode(s) ==
    LET bad == {i \in 1..Len(s) :
                  LET c == SubSeq(s, i, i) IN
                  \/ c \in {":", " ", "\r", "\n"}
                  \/ Escaped(s, i) /\ c \notin {"c", "s", "r", "n", "!"}
                  \/ c = "!" /\ ~Escaped(s, i) /\ i = Len(s)}
    IN  IF bad # {} THEN [bytes |-> "", err |-> TRUE]
        ELSE [bytes |-> DecodeRange(s, 1, Len(s)), err |-> FALSE]

----------------------------------------------------------------------------
(* keycard: AlgoString.  Every method has a value receiver: it works on a *)
(* copy of the object, and what it assigns to the copy's fields is lost   *)
(* when it returns.                                                        *)

\* The zero value
NoAlgoString == [Prefix |-> "", Data |-> ""]

\* AlgoString.Set(data): [err, as], as being the object after the call
AlgoStringSet(as, data) ==
    IF Len(data) < 1 THEN [err |-> FALSE, as |-> as]
    ELSE LET parts == SplitN(data, ":", 1) IN
         IF Len(parts) # 2 THEN [err |-> TRUE, as |-> as]
         ELSE [err |-> FALSE, as |-> as]

\* What Set leaves in its copy of the receiver
AlgoStringSetCopy(as, data) ==
    IF Len(data) < 1 THEN [Prefix |-> "", Data |-> ""]
    ELSE LET parts == SplitN(data, ":", 1) IN
         IF Len(parts) # 2 THEN as
         ELSE [Prefix |-> parts[1], Data |-> parts[2]]

AsString(as) == as.Prefix \o ":" \o as.Data

IsValid(as) == Len(as.Prefix) > 0 /\ Len(as.Data) > 0

\* RawData: [bytes, err]
RawData(as) == b85Decode(as.Data)

\* MakeEmpty: the object after the call
MakeEmpty(as) == as

----------------------------------------------------------------------------
(* keycard: entries *)

SigInfoHash == 1
SigInfoSignature == 2

\* NewOrgEntry: FieldNames and SignatureInfo of an organization entry
OrgFieldNames ==
    <<"Index", "Name", "Contact-Admin", "Contact-Abuse", "Contact-Support",
      "Language", "Primary-Signing-Key", "Secondary-Signing-Key",
      "Encryption-Key", "Time-To-Live", "Expires">>

OrgSignatureInfo ==
    <<[Name |-> "Custody", Level |-> 1, Optional |-> TRUE,
       Type |-> SigInfoSignature],
      [Name |-> "Organization", Level |-> 2, Optional |-> FALSE,
       Type |-> SigInfoSignature],
      [Name |-> "Hashes", Level |-> 3, Optional |-> FALSE,
       Type |-> SigInfoHash]>>

\* The user entry (spec.md 4.3)
UserFieldNames ==
    <<"Index", "Workspace-ID", "User-ID", "Domain",
      "Contact-Request-Verification-Key", "Contact-Request-Encryption-Key",
      "Public-Encryption-Key", "Time-To-Live", "Expires", "Timestamp">>

UserSignatureInfo ==
    <<[Name |-> "Custody", Level |-> 1, Optional |-> TRUE,
       Type |-> SigInfoSignature],
      [Name |-> "Organization", Level |-> 2, Optional |-> FALSE,
       Type |-> SigInfoSignature],
      [Name |-> "Hashes", Level |-> 3, Optional |-> FALSE,
       Type |-> SigInfoHash],
      [Name |-> "User", Level |-> 4, Optional |-> FALSE,
       Type |-> SigInfoSignature]>>

\* EntryBase: an entry is [Type, Fields, Signatures, PrevHash, Hash]; the
\* field list and the signature list follow from its Type
FieldNames(eb) ==
    IF eb.Type = "Organization" THEN OrgFieldNames ELSE UserFieldNames

SignatureInfo(eb) ==
    IF eb.Type = "Organization" THEN OrgSignatureInfo ELSE UserSignatureInfo

\* The value of a Go map[string]string at a key: "" when the key is absent
Get(m, k) == IF k \in DOMAIN m THEN m[k] ELSE ""

RECURSIVE Concat(_)
Concat(ss) == IF ss = <<>> THEN <<>> ELSE Head(ss) \o Concat(Tail(ss))

\* MakeByteString with the field names taken last to first
MakeByteStringReversed(eb, siglevel) ==
    LET items == SignatureInfo(eb)
        names == FieldNames(eb)
        level == IF siglevel < 0 \/ siglevel > Len(items)
                 THEN items[Len(items)].Level ELSE siglevel
        typeLine == IF eb.Type # "" THEN <<(<<eb.Type>>)>> ELSE <<>>
        fieldLines ==
            Concat([i \in 1..Len(names) |->
                      IF Get(eb.Fields, names[Len(names) + 1 - i]) # ""
                      THEN <<(<<names[Len(names) + 1 - i],
                                eb.Fields[names[Len(names) + 1 - i]]>>)>>
                      ELSE <<>>])
        sigLines ==
            Concat([i \in 1..level |->
                      IF items[i].Type = SigInfoHash
                      THEN (IF eb.PrevHash # ""
                            THEN <<(<<"Previous-Hash", eb.PrevHash>>)>>
                            ELSE <<>>)
                           \o (IF eb.Hash # ""
                               THEN <<(<<"Hash", eb.Hash>>)>> ELSE <<>>)
                      ELSE IF Get(eb.Signatures, items[i].Name) # ""
                      THEN <<(<<items[i].Name \o "-Signature",
                                eb.Signatures[items[i].Name]>>)>>
                      ELSE <<>>])
    IN  typeLine \o fieldLines \o sigLines

\* MakeByteString(siglevel): the lines the bytes are the CRLF-join of; the
\* line "name:value" is the pair <<name, value>>, the type line is <<Type>>
MakeByteString(eb, siglevel) ==
    LET items == SignatureInfo(eb)
        names == FieldNames(eb)
        level == IF siglevel < 0 \/ siglevel > Len(items)
                 THEN items[Len(items)].Level ELSE siglevel
        typeLine == IF eb.Type # "" THEN <<(<<eb.Type>>)>> ELSE <<>>
        fieldLines ==
            Concat([i \in 1..Len(names) |->
                      IF Get(eb.Fields, names[i]) # ""
                      THEN <<(<<names[i], eb.Fields[names[i]]>>)>>
                      ELSE <<>>])
        sigLines ==
            Concat([i \in 1..level |->
                      IF items[i].Type = SigInfoHash
                      THEN (IF eb.PrevHash # ""
                            THEN <<(<<"Previous-Hash", eb.PrevHash>>)>>
                            ELSE <<>>)
                           \o (IF eb.Hash # ""
                               THEN <<(<<"Hash", eb.Hash>>)>> ELSE <<>>)
                      ELSE IF Get(eb.Signatures, items[i].Name) # ""
                      THEN <<(<<items[i].Name \o "-Signature",
                                eb.Signatures[items[i].Name]>>)>>
                      ELSE <<>>])
    IN  typeLine \o fieldLines \o sigLines

\* bytes.Join(lines, "\r\n") of MakeByteString: the bytes themselves
LineText(line) ==
    IF Len(line) = 1 THEN line[1] ELSE line[1] \o ":" \o line[2]

Bytes(eb, siglevel) ==
    LET lines == MakeByteString(eb, siglevel)
    IN  Join([i \in 1..Len(lines) |-> LineText(lines[i])], "\r\n")

\* SigInfoList.Contains and the position of a name in the list (from 1)
Contains(sil, name) == \E i \in 1..Len(sil) : sil[i].Name = name

PositionOf(sil, name) ==
    CHOOSE i \in 1..Len(sil) :
       /\ sil[i].Name = name
       /\ \A j \in 1..Len(sil) : sil[j].Name = name => j <= i

\* SigInfoList.GetItem
GetItem(sil, name) == sil[PositionOf(sil, name)]

\* m[k] = v on a Go map
Put(m, k, v) == [x \in DOMAIN m \cup {k} |-> IF x = k THEN v ELSE m[x]]

\* Ed25519 and HMAC of package nacl.  The public key of a private key; a
\* signed message is the signature, which names the public key it verifies
\* under, followed by the message; a digest is made with the key itself.
PublicKeyOf(privateKey) == "P" \o privateKey

signSign(message, privateKey) ==
    "sig<" \o PublicKeyOf(privateKey) \o ">" \o message

authSum(message, key) == "mac<" \o key \o ">" \o message

authVerify(digest, message, key) == digest = authSum(message, key)

\* The signatures of eb after the loop of Sign, lines 349-360: the one
\* named sigtype and all that follow it in the list are set to ""
Cleared(eb, sigtype) ==
    LET items == SignatureInfo(eb)
        from == PositionOf(items, sigtype)
        names == {items[i].Name : i \in from..Len(items)}
    IN  [x \in DOMAIN eb.Signatures \cup names |->
           IF x \in names THEN "" ELSE eb.Signatures[x]]

\* The bytes Sign signs, line 375
SignScope(eb, sigtype) ==
    Bytes([eb EXCEPT !.Signatures = Cleared(eb, sigtype)],
          (PositionOf(SignatureInfo(eb), sigtype) - 1) + 1)

\* Sign(signingKey, sigtype): [err, eb], eb being the entry after the call.
\* The receiver is a copy, but its maps are those of the caller's entry.
Sign(eb, signingKey, sigtype) ==
    IF ~IsValid(signingKey) THEN [err |-> TRUE, eb |-> eb]
    ELSE IF signingKey.Prefix # "ED25519" THEN [err |-> TRUE, eb |-> eb]
    ELSE IF ~Contains(SignatureInfo(eb), sigtype)
    THEN [err |-> TRUE, eb |-> eb]
    ELSE LET cleared == [eb EXCEPT !.Signatures = Cleared(eb, sigtype)]
             signkeyDecoded == RawData(signingKey)
             signature == signSign(SignScope(eb, sigtype),
                                   signkeyDecoded.bytes)
         IN  IF signkeyDecoded.err THEN [err |-> TRUE, eb |-> cleared]
             ELSE [err |-> FALSE,
                   eb |-> [cleared EXCEPT !.Signatures =
                             Put(@, sigtype,
                                 "ED25519:" \o b85Encode(signature))]]

\* The bytes VerifySignature checks, line 476
VerifyScope(eb, sigtype) ==
    Bytes(eb, GetItem(SignatureInfo(eb), sigtype).Level)

\* VerifySignature(verifyKey, sigtype): [ok, err]
VerifySignature(eb, verifyKey, sigtype) ==
    IF ~IsValid(verifyKey) THEN [ok |-> FALSE, err |-> TRUE]
    ELSE IF verifyKey.Prefix # "ED25519" THEN [ok |-> FALSE, err |-> TRUE]
    ELSE IF ~Contains(SignatureInfo(eb), sigtype)
    THEN [ok |-> FALSE, err |-> TRUE]
    ELSE IF Get(eb.Signatures, sigtype) = ""
    THEN [ok |-> FALSE, err |-> TRUE]
    ELSE LET set == AlgoStringSet(NoAlgoString, eb.Signatures[sigtype])
             sig == set.as
             verifykeyDecoded == RawData(verifyKey)
             digest == RawData(sig)
         IN  IF set.err THEN [ok |-> FALSE, err |-> TRUE]
             ELSE IF sig.Prefix # "ED25519" THEN [ok |-> FALSE, err |-> TRUE]
             ELSE IF verifykeyDecoded.err THEN [ok |-> FALSE, err |-> TRUE]
             ELSE IF digest.err THEN [ok |-> FALSE, err |-> TRUE]
             ELSE [ok |-> authVerify(digest.bytes, VerifyScope(eb, sigtype),
                                     verifykeyDecoded.bytes),
                   err |-> FALSE]

\* SetField(fieldName, fieldValue): [err, eb].  The new Signatures map is
\* assigned to the copy's field and lost.
SetField(eb, fieldName, fieldValue) ==
    IF Len(fieldName) < 1 THEN [err |-> TRUE, eb |-> eb]
    ELSE [err |-> FALSE,
          eb |-> [eb EXCEPT !.Fields = Put(@, fieldName, fieldValue)]]

\* The loop of Set over the lines from linenum on: [err, eb]
RECURSIVE SetLines(_, _, _)
SetLines(eb, lines, linenum) ==
    IF linenum > Len(lines) THEN [err |-> FALSE, eb |-> eb]
    ELSE
      LET line == TrimSpace(lines[linenum])
          parts == SplitN(line, ":", 1)
      IN
      IF Len(parts) # 2 THEN [err |-> TRUE, eb |-> eb]
      ELSE IF parts[1] = "Type"
      THEN IF parts[2] # eb.Type THEN [err |-> TRUE, eb |-> eb]
           ELSE SetLines(eb, lines, linenum + 1)
      ELSE IF HasSuffix(parts[1], "Signature")
      THEN LET sigparts == SplitN(parts[1], "-", 1) IN
           IF ~Contains(SignatureInfo(eb), sigparts[1])
           THEN [err |-> TRUE, eb |-> eb]
           ELSE IF Len(sigparts) < 2
           THEN [err |-> TRUE, eb |-> eb]   \* sigparts[1]: index out of range
           ELSE SetLines([eb EXCEPT !.Signatures =
                                      Put(@, sigparts[1], sigparts[2])],
                         lines, linenum + 1)
      ELSE SetLines([eb EXCEPT !.Fields = Put(@, parts[1], parts[2])],
                    lines, linenum + 1)

\* Set(data): [err, eb]
EntryBaseSet(eb, data) ==
    IF Len(data) < 1 THEN [err |-> TRUE, eb |-> eb]
    ELSE SetLines(eb, Split(data, "\r\n"), 1)

\* NewOrgEntry: RequiredFields of an organization entry
OrgRequiredFields ==
    <<"Index", "Name", "Contact-Admin", "Primary-Signing-Key",
      "Encryption-Key", "Time-To-Live", "Expires">>

\* IsCompliant of an organization entry.  `val, err := eb.Signatures[name]`
\* reads the value and whether the key is present: for an item marked
\* Optional the method returns false when the key is present, and when the
\* value is empty, which it is when the key is absent.  An item not marked
\* Optional is not looked at
IsCompliant(eb) ==
    LET items == SignatureInfo(eb)
        required == OrgRequiredFields
    IN  /\ eb.Type \in {"User", "Organization"}
        /\ \A i \in 1..Len(required) : required[i] \in DOMAIN eb.Fields
        /\ \A i \in 1..Len(items) :
              IF items[i].Type = SigInfoHash THEN Len(eb.Hash) >= 1
              ELSE /\ items[i].Type = SigInfoSignature
                   /\ items[i].Optional
                         => ~(\/ items[i].Name \in DOMAIN eb.Signatures
                              \/ Len(Get(eb.Signatures, items[i].Name)) < 1)

\* The digests of packages blake3, blake2b, sha256 and sha3: a digest names
\* its function and the message it was made of
hashSum(function, message) == function \o "<" \o message \o ">"

\* The Level of the first item of type SigInfoHash, -1 when there is none
HashLevel(eb) ==
    LET items == SignatureInfo(eb)
        hits == {i \in 1..Len(items) : items[i].Type = SigInfoHash}
    IN  IF hits = {} THEN -1
        ELSE items[CHOOSE i \in hits : \A j \in hits : i <= j].Level

\* GenerateHash(algorithm): [err, eb, sum], eb being the entry after the
\* call and sum the value the method assigns to Hash.  The receiver is a
\* copy and Hash a string field of it: the assignment is lost when the
\* method returns.  blake3's hasher.Sum(b) appends the digest of what was
\* written to the hasher, nothing, to b.  "SHA-256" passes the first switch
\* and matches no case of the second, which names "SHA256"
GenerateHash(eb, algorithm) ==
    IF algorithm \notin {"BLAKE3-256", "BLAKE2", "SHA-256", "SHA3-256"}
    THEN [err |-> TRUE, eb |-> eb, sum |-> eb.Hash]
    ELSE LET bytes == Bytes(eb, HashLevel(eb))
             sum ==
               CASE algorithm = "BLAKE3-256" ->
                      algorithm \o b85Encode(bytes \o hashSum("blake3", ""))
                 [] algorithm = "BLAKE2" ->
                      algorithm \o b85Encode(hashSum("blake2b", bytes))
                 [] algorithm = "SHA3-256" ->
                      algorithm \o b85Encode(hashSum("sha3", bytes))
                 [] OTHER -> eb.Hash
         IN  [err |-> FALSE, eb |-> eb, sum |-> sum]

----------------------------------------------------------------------------
(* dbhandler: the keycard table *)

\* The database's conversion of the Index string to column index
Digits == <<"1", "2", "3", "4">>
Atoi(str) == CHOOSE n \in 1..Len(Digits) : Digits[n] = str

\* An AddEntry whose INSERT the table accepts whatever rows it holds
AddEntryUnkeyed(kc, entry) ==
    LET owner == IF Get(entry.Fields, "Type") = "Organization"
                 THEN "organization"
                 ELSE Get(entry.Fields, "Workspace-ID")
    IN  [err |-> FALSE,
         table |-> kc \cup {[owner |-> owner,
                             creationtime |-> Get(entry.Fields, "Timestamp"),
                             index |-> Atoi(Get(entry.Fields, "Index")),
                             entry |-> MakeByteString(entry, -1),
                             fingerprint |-> entry.Hash]}]

\* AddEntry(entry) on table kc: [err, table]
AddEntry(kc, entry) ==
    LET owner == IF Get(entry.Fields, "Type") = "Organization"
                 THEN "organization"
                 ELSE Get(entry.Fields, "Workspace-ID")
    IN  InsertRow(kc, [owner |-> owner,
                       creationtime |-> Get(entry.Fields, "Timestamp"),
                       index |-> Atoi(Get(entry.Fields, "Index")),
                       entry |-> MakeByteString(entry, -1),
                       fingerprint |-> entry.Hash],
                  {"owner", "index"})

\* The column entry of a set of rows, ORDER BY index
RECURSIVE OrderByIndex(_)
OrderByIndex(rows) ==
    IF rows = {} THEN <<>>
    ELSE LET first == CHOOSE r \in rows : \A q \in rows : r.index <= q.index
         IN  <<first.entry>> \o OrderByIndex(rows \ {first})

\* A GetUserEntries that selects by index alone, whoever the owner is
GetUserEntriesOfAll(kc, wid, startIndex, endIndex) ==
    IF startIndex < 1
    THEN IF kc = {} THEN [out |-> <<>>, err |-> TRUE]
         ELSE [out |-> <<(CHOOSE r \in kc :
                             \A q \in kc : q.index <= r.index).entry>>,
               err |-> FALSE]
    ELSE IF endIndex >= 1
    THEN IF endIndex < startIndex THEN [out |-> <<>>, err |-> FALSE]
         ELSE [out |-> OrderByIndex({r \in kc : /\ r.index >= startIndex
                                                 /\ r.index <= endIndex}),
               err |-> FALSE]
    ELSE [out |-> OrderByIndex({r \in kc : r.index >= startIndex}),
          err |-> FALSE]

\* GetUserEntries(wid, startIndex, endIndex) on table kc: [out, err]
GetUserEntries(kc, wid, startIndex, endIndex) ==
    LET rows == {r \in kc : r.owner = wid} IN
    IF startIndex < 1
    THEN IF rows = {} THEN [out |-> <<>>, err |-> TRUE]
         ELSE [out |-> <<(CHOOSE r \in rows :
                             \A q \in rows : q.index <= r.index).entry>>,
               err |-> FALSE]
    ELSE IF endIndex >= 1
    THEN IF endIndex < startIndex THEN [out |-> <<>>, err |-> FALSE]
         ELSE [out |-> OrderByIndex({r \in rows : /\ r.index >= startIndex
                                                   /\ r.index <= endIndex}),
               err |-> FALSE]
    ELSE [out |-> OrderByIndex({r \in rows : r.index >= startIndex}),
          err |-> FALSE]

\* GetOrgEntries(startIndex, endIndex) on table kc: [out, err].  Its three
\* statements are those of GetUserEntries with owner = 'organization'.
GetOrgEntries(kc, startIndex, endIndex) ==
    LET rows == {r \in kc : r.owner = "organization"} IN
    IF startIndex < 1
    THEN IF rows = {} THEN [out |-> <<>>, err |-> TRUE]
         ELSE [out |-> <<(CHOOSE r \in rows :
                             \A q \in rows : q.index <= r.index).entry>>,
               err |-> FALSE]
    ELSE IF endIndex >= 1
    THEN IF endIndex < startIndex THEN [out |-> <<>>, err |-> FALSE]
         ELSE [out |-> OrderByIndex({r \in rows : /\ r.index >= startIndex
                                                   /\ r.index <= endIndex}),
               err |-> FALSE]
    ELSE [out |-> OrderByIndex({r \in rows : r.index >= startIndex}),
          err |-> FALSE]

----------------------------------------------------------------------------
(* The initial state: the tables hold what the database held at startup *)

Salts == {"s1"}

\* The zero value of EntryBase, and a client with no append
NoEntry ==
    [Type |-> "", Fields |-> <<>>, Signatures |-> <<>>, PrevHash |-> "",
     Hash |-> ""]
Clients == {"a1", "a2"}
NoAppend == [state |-> "idle", entry |-> NoEntry, owner |-> "", prior |-> 0]

InitialWorkspaces ==
    {[wid |-> "w1", uid |-> "u1", domain |-> "example.com",
      password |-> hashPassword("p1", "normal", "s1"), status |-> "active",
      wtype |-> "individual"],
     [wid |-> "w2", uid |-> "u2", domain |-> "example.com",
      password |-> hashPassword("p2", "normal", "s1"), status |-> "disabled",
      wtype |-> "individual"]}

\* A failure record as section 3 of spec.md describes it: lockout_until is
\* set iff count >= max_failures
FailureRows ==
    {r \in [type : {"password", "workspace"}, id : {"w1"}, source : Sources,
            count : 1..MaxFailures, last_failure : {0},
            lockout_until : {NoLock, 0 + LockoutDelay}] :
       (r.lockout_until # NoLock) <=> (r.count >= MaxFailures)}

InitialFailureLogs == {{}} \cup {{r} : r \in FailureRows}

Init ==
    /\ sessions = [c \in Conns |->
                       [open |-> FALSE, PasswordFailures |-> 0,
                        LoginState |-> loginNoSession,
                        IsTerminating |-> FALSE, WID |-> ""]]
    /\ workspaces = InitialWorkspaces
    /\ prereg = {}
    /\ devices = {}
    /\ failure_log \in InitialFailureLogs
    /\ keycards = {}
    /\ now = 1
    /\ last = [n |-> 0, conn |-> "", req |-> [Action |-> ""], code |-> 0,
               err |-> FALSE]
    /\ attempts = [k \in Wids \X Sources |-> [n |-> 0, at |-> 0]]
    /\ aliases = {}
    /\ card = NoEntry
    /\ atb = NoAlgoString
    /\ pending = [a \in Clients |-> NoAppend]
    /\ redeemed = {}
    /\ plain = [w \in UUIDs |-> ""]
    /\ running = TRUE
    /\ peer = [c \in Conns |-> "open"]
    /\ config = [configured |-> 6, wordcount |-> 6,
                 workspace_dir |-> DefaultWorkspaceDir]
    /\ anpath = NoPath

Next ==
    \/ \E c \in Conns : Accept(c)
    \/ \E c \in Conns : \E req \in Requests : Command(c, req)
    \/ \E c \in Conns : Quit(c)
    \/ \E c \in Conns : ReadTimeout(c)
    \/ Tick

Spec == Init /\ [][Next]_vars

----------------------------------------------------------------------------
(* The failure tracker, called directly *)

TrackerIds == {"w1", "w2"}

CallLogFailure(failType, id, source) ==
    /\ \E o \in LogFailure(failure_log, failType, id, source, now) :
          /\ failure_log' = o.fl
          /\ last' = [n |-> 1 - last.n, conn |-> "",
                      req |-> [Action |-> "LogFailure", type |-> failType,
                               id |-> id, source |-> source],
                      code |-> 0, err |-> o.err]
    /\ UNCHANGED <<aliases, card, atb, pending, redeemed, plain,
                   running, peer, config, anpath>>
    /\ UNCHANGED <<sessions, workspaces, prereg, devices, keycards, now,
                   attempts>>

CallCheckLockout(failType, id, source) ==
    /\ \E o \in CheckLockout(failure_log, failType, id, source, now) :
          /\ failure_log' = o.fl
          /\ last' = [n |-> 1 - last.n, conn |-> "",
                      req |-> [Action |-> "CheckLockout", type |-> failType,
                               id |-> id, source |-> source],
                      code |-> o.locktime, err |-> o.err]
    /\ UNCHANGED <<aliases, card, atb, pending, redeemed, plain,
                   running, peer, config, anpath>>
    /\ UNCHANGED <<sessions, workspaces, prereg, devices, keycards, now,
                   attempts>>

NextTracker ==
    \/ \E t \in FailTypes \cup {"login"}, i \in TrackerIds,
          src \in Sources \cup {""} : CallLogFailure(t, i, src)
    \/ \E t \in FailTypes, i \in TrackerIds, src \in Sources :
          CallCheckLockout(t, i, src)
    \/ Tick

SpecTracker == Init /\ [][NextTracker]_vars

----------------------------------------------------------------------------
(* The keycard table, written directly *)

\* The newest 'sign' row of table orgkeys and the key every entry of the
\* model names as its primary signing key
CurrentOrgKey == "ko"
EntryKey == "k1"

\* A signature is named after the key that made it
SigBy(key) == "ED25519:" \o key

OrgFields ==
    {f \in [{"Index", "Primary-Signing-Key"} -> {"1", "2", "3", EntryKey}]
           \cup [{"Type", "Index", "Primary-Signing-Key"}
                 -> {"1", "2", "3", EntryKey, "Organization"}] :
       /\ f["Index"] \in {"1", "2", "3"}
       /\ f["Primary-Signing-Key"] = EntryKey
       /\ "Type" \in DOMAIN f => f["Type"] = "Organization"}

UserFields ==
    {f \in [{"Index", "Workspace-ID", "Contact-Request-Verification-Key"}
            -> {"1", "2", "3", EntryKey, "w1"}] :
       /\ f["Index"] \in {"1", "2", "3"}
       /\ f["Contact-Request-Verification-Key"] = EntryKey
       /\ f["Workspace-ID"] = "w1"}

EntrySignatures ==
    {[Custody |-> SigBy(EntryKey), Organization |-> SigBy(CurrentOrgKey)],
     [Custody |-> SigBy(CurrentOrgKey), Organization |-> SigBy(CurrentOrgKey)],
     [Custody |-> SigBy(EntryKey), Organization |-> ""]}

Entries ==
    [Type : {"Organization"}, Fields : OrgFields,
     Signatures : EntrySignatures, PrevHash : {"", "h1"}, Hash : {"h1", "h2"}]
    \cup [Type : {"User"}, Fields : UserFields,
          Signatures : EntrySignatures, PrevHash : {"", "h1"},
          Hash : {"h1", "h2"}]

\* The conditions of a chain append (spec.md 4.3), on table kc: the owner
\* is the organization or the entry's workspace
EntryOwner(e) ==
    IF e.Type = "Organization" THEN "organization"
    ELSE Get(e.Fields, "Workspace-ID")

LineValue(lines, name) ==
    LET hit == {i \in 1..Len(lines) :
                  Len(lines[i]) = 2 /\ lines[i][1] = name}
    IN  IF hit = {} THEN "" ELSE lines[CHOOSE i \in hit : TRUE][2]

SigningKeyField(e) ==
    IF e.Type = "Organization" THEN "Primary-Signing-Key"
    ELSE "Contact-Request-Verification-Key"

Latest(rows) == CHOOSE r \in rows : \A q \in rows : q.index <= r.index

ChainOK(kc, e) ==
    LET rows == {r \in kc : r.owner = EntryOwner(e)} IN
    /\ IF rows = {} THEN Atoi(Get(e.Fields, "Index")) = 1
       ELSE /\ e.PrevHash = Latest(rows).fingerprint
            /\ Atoi(Get(e.Fields, "Index")) = Latest(rows).index + 1
            /\ Get(e.Signatures, "Custody")
                 = SigBy(LineValue(Latest(rows).entry, SigningKeyField(e)))
    /\ e.Type = "User"
         => Get(e.Signatures, "Organization") = SigBy(CurrentOrgKey)

CallAddEntry(entry) ==
    /\ Cardinality(keycards) < MaxCards
    /\ LET o == AddEntry(keycards, entry) IN
          /\ keycards' = o.table
          /\ last' = [n |-> 1 - last.n, conn |-> "",
                      req |-> [Action |-> "AddEntry",
                               chainOK |-> ChainOK(keycards, entry)],
                      code |-> 0,
                      err |-> o.err]
    /\ UNCHANGED <<aliases, card, atb, pending, redeemed, plain,
                   running, peer, config, anpath>>
    /\ UNCHANGED <<sessions, workspaces, prereg, devices, failure_log, now,
                   attempts>>

NextCards == \E entry \in Entries : CallAddEntry(entry)

InitCards == Init /\ failure_log = {}

SpecCards == InitCards /\ [][NextCards]_vars

----------------------------------------------------------------------------
(* Concurrent appends: every connection has its own worker (main, line    *)
(* 353), so the AddEntry calls of two clients interleave.  A client reads *)
(* the newest entry of an owner, builds the next entry on it and then has *)
(* it appended; AddEntry is one INSERT, atomic in the database.           *)

\* The row AddEntry writes for an entry
RowOf(entry) == CHOOSE r \in AddEntry({}, entry).table : TRUE

\* The index of the newest entry stored for an owner, 0 when it has none
PriorIndex(kc, owner) ==
    LET rows == {r \in kc : r.owner = owner} IN
    IF rows = {} THEN 0 ELSE Latest(rows).index

\* entry continues the chain table kc holds for its owner
BuiltOn(kc, entry) ==
    LET rows == {r \in kc : r.owner = RowOf(entry).owner} IN
    /\ RowOf(entry).index = PriorIndex(kc, RowOf(entry).owner) + 1
    /\ entry.PrevHash = IF rows = {} THEN "" ELSE Latest(rows).fingerprint

\* Each client makes one append
Prepare(a, entry) ==
    /\ pending[a].state = "idle"
    /\ BuiltOn(keycards, entry)
    /\ pending' = [pending EXCEPT ![a] =
                      [state |-> "built", entry |-> entry,
                       owner |-> RowOf(entry).owner,
                       prior |-> PriorIndex(keycards, RowOf(entry).owner)]]
    /\ UNCHANGED <<sessions, workspaces, prereg, devices, failure_log,
                   keycards, now, last, attempts, aliases, card, atb, redeemed,
                   plain, running, peer, config, anpath>>

AppendEntry(a) ==
    /\ pending[a].state = "built"
    /\ LET o == AddEntry(keycards, pending[a].entry) IN
          /\ keycards' = o.table
          /\ pending' = [pending EXCEPT ![a].state =
                            IF o.err THEN "failed" ELSE "ok"]
          /\ last' = [n |-> 1 - last.n, conn |-> a,
                      req |-> [Action |-> "AddEntry",
                               chainOK |-> ChainOK(keycards, pending[a].entry)],
                      code |-> 0, err |-> o.err]
    /\ UNCHANGED <<sessions, workspaces, prereg, devices, failure_log, now,
                   attempts, aliases, card, atb, redeemed,
                   plain, running, peer, config, anpath>>

NextAppend ==
    \/ \E a \in Clients : \E entry \in Entries : Prepare(a, entry)
    \/ \E a \in Clients : AppendEntry(a)

SpecAppend == InitCards /\ [][NextAppend]_vars

----------------------------------------------------------------------------
(* AlgoString, its methods called directly *)

\* The objects a caller builds as struct literals
AlgoStrings == [Prefix : {"", "ED25519", "BLAKE2"}, Data : {"", "abc", "a b"}]

\* The strings a caller passes to Set
AlgoStringInputs ==
    {"", "ED25519:abc", "BLAKE2:xyz", "ED25519", ":abc", "ED25519:"}

NoStore ==
    /\ UNCHANGED <<sessions, workspaces, prereg, devices, failure_log,
                   keycards, now, attempts, aliases, pending, redeemed,
                   plain, running, peer, config, anpath>>

CallAlgoStringSet(data) ==
    /\ LET o == AlgoStringSet(atb, data) IN
          /\ atb' = o.as
          /\ last' = [n |-> 1 - last.n, conn |-> "",
                      req |-> [Action |-> "AlgoString.Set", data |-> data],
                      code |-> 0, err |-> o.err]
    /\ UNCHANGED card
    /\ NoStore

CallAsString ==
    /\ last' = [n |-> 1 - last.n, conn |-> "",
                req |-> [Action |-> "AlgoString.AsString"],
                code |-> AsString(atb), err |-> FALSE]
    /\ UNCHANGED <<card, atb>>
    /\ NoStore

CallIsValid ==
    /\ last' = [n |-> 1 - last.n, conn |-> "",
                req |-> [Action |-> "AlgoString.IsValid"],
                code |-> IsValid(atb), err |-> FALSE]
    /\ UNCHANGED <<card, atb>>
    /\ NoStore

CallRawData ==
    /\ last' = [n |-> 1 - last.n, conn |-> "",
                req |-> [Action |-> "AlgoString.RawData"],
                code |-> RawData(atb).bytes, err |-> RawData(atb).err]
    /\ UNCHANGED <<card, atb>>
    /\ NoStore

CallMakeEmpty ==
    /\ atb' = MakeEmpty(atb)
    /\ last' = [n |-> 1 - last.n, conn |-> "",
                req |-> [Action |-> "AlgoString.MakeEmpty"],
                code |-> 0, err |-> FALSE]
    /\ UNCHANGED card
    /\ NoStore

NextAlgoString ==
    \/ \E data \in AlgoStringInputs : CallAlgoStringSet(data)
    \/ CallAsString
    \/ CallIsValid
    \/ CallRawData
    \/ CallMakeEmpty

InitAlgoString ==
    /\ sessions = [c \in Conns |->
                       [open |-> FALSE, PasswordFailures |-> 0,
                        LoginState |-> loginNoSession,
                        IsTerminating |-> FALSE, WID |-> ""]]
    /\ workspaces = InitialWorkspaces
    /\ prereg = {}
    /\ devices = {}
    /\ failure_log = {}
    /\ keycards = {}
    /\ now = 1
    /\ last = [n |-> 0, conn |-> "", req |-> [Action |-> ""], code |-> 0,
               err |-> FALSE]
    /\ attempts = [k \in Wids \X Sources |-> [n |-> 0, at |-> 0]]
    /\ aliases = {}
    /\ card = NoEntry
    /\ atb \in AlgoStrings
    /\ pending = [a \in Clients |-> NoAppend]
    /\ redeemed = {}
    /\ plain = [w \in UUIDs |-> ""]
    /\ running = TRUE
    /\ peer = [c \in Conns |-> "open"]
    /\ config = [configured |-> 6, wordcount |-> 6,
                 workspace_dir |-> DefaultWorkspaceDir]
    /\ anpath = NoPath

SpecAlgoString == InitAlgoString /\ [][NextAlgoString]_vars

----------------------------------------------------------------------------
(* A keycard entry in memory, its methods called directly *)

EmptyMap == [x \in {} |-> ""]

\* An entry whose maps are allocated and empty
NewEntry(type) ==
    [Type |-> type, Fields |-> EmptyMap, Signatures |-> EmptyMap,
     PrevHash |-> "", Hash |-> ""]

\* The entries a caller has filled in; Hash is set by the caller
InitialCards ==
    [Type : {"Organization"}, Fields : {[Index |-> "1", Name |-> "acme"]},
     Signatures : {EmptyMap}, PrevHash : {""}, Hash : {"", "BLAKE2:h1"}]
    \cup [Type : {"User"},
          Fields : {[x \in {"Index", "Workspace-ID"} |->
                       IF x = "Index" THEN "1" ELSE "w1"]},
          Signatures : {EmptyMap}, PrevHash : {""}, Hash : {"", "BLAKE2:h1"}]

\* The keys a caller signs with, and the public key that matches one
SigningKeys ==
    {[Prefix |-> "ED25519", Data |-> "sk1"],
     [Prefix |-> "BLAKE2", Data |-> "sk1"],
     [Prefix |-> "ED25519", Data |-> "a b"]}

VerifyKeyOf(signingKey) ==
    [Prefix |-> "ED25519",
     Data |-> b85Encode(PublicKeyOf(RawData(signingKey).bytes))]

VerifyKeys ==
    {VerifyKeyOf(k) : k \in SigningKeys} \cup {[Prefix |-> "ED25519", Data |-> "Psk2"]}

SigTypes == {"Custody", "Organization", "User", "Bogus"}

FieldEdits == {<<"Name", "acme">>, <<"Name", "evil">>, <<"", "acme">>}

CallSign(signingKey, sigtype) ==
    /\ LET o == Sign(card, signingKey, sigtype) IN
          /\ card' = o.eb
          /\ last' = [n |-> 1 - last.n, conn |-> "",
                      req |-> [Action |-> "Sign", key |-> signingKey,
                               sigtype |-> sigtype],
                      code |-> 0, err |-> o.err]
    /\ UNCHANGED atb
    /\ NoStore

CallVerifySignature(verifyKey, sigtype) ==
    /\ LET o == VerifySignature(card, verifyKey, sigtype) IN
          last' = [n |-> 1 - last.n, conn |-> "",
                   req |-> [Action |-> "VerifySignature", key |-> verifyKey,
                            sigtype |-> sigtype],
                   code |-> o.ok, err |-> o.err]
    /\ UNCHANGED <<card, atb>>
    /\ NoStore

CallSetField(fieldName, fieldValue) ==
    /\ LET o == SetField(card, fieldName, fieldValue) IN
          /\ card' = o.eb
          /\ last' = [n |-> 1 - last.n, conn |-> "",
                      req |-> [Action |-> "SetField", name |-> fieldName,
                               value |-> fieldValue],
                      code |-> 0, err |-> o.err]
    /\ UNCHANGED atb
    /\ NoStore

\* The entry is serialized (Save, line 248) and the bytes are read into a
\* new entry of its type with Set
CallSet(data) ==
    /\ LET o == EntryBaseSet(NewEntry(card.Type), data) IN
          last' = [n |-> 1 - last.n, conn |-> "",
                   req |-> [Action |-> "Set", data |-> data],
                   code |-> o.eb, err |-> o.err]
    /\ UNCHANGED <<card, atb>>
    /\ NoStore

NextEntry ==
    \/ \E k \in SigningKeys, t \in SigTypes : CallSign(k, t)
    \/ \E k \in VerifyKeys, t \in SigTypes : CallVerifySignature(k, t)
    \/ \E e \in FieldEdits : CallSetField(e[1], e[2])
    \/ \E data \in {Bytes(card, -1), ""} : CallSet(data)

InitEntry ==
    /\ sessions = [c \in Conns |->
                       [open |-> FALSE, PasswordFailures |-> 0,
                        LoginState |-> loginNoSession,
                        IsTerminating |-> FALSE, WID |-> ""]]
    /\ workspaces = InitialWorkspaces
    /\ prereg = {}
    /\ devices = {}
    /\ failure_log = {}
    /\ keycards = {}
    /\ now = 1
    /\ last = [n |-> 0, conn |-> "", req |-> [Action |-> ""], code |-> 0,
               err |-> FALSE]
    /\ attempts = [k \in Wids \X Sources |-> [n |-> 0, at |-> 0]]
    /\ aliases = {}
    /\ card \in InitialCards
    /\ atb = NoAlgoString
    /\ pending = [a \in Clients |-> NoAppend]
    /\ redeemed = {}
    /\ plain = [w \in UUIDs |-> ""]
    /\ running = TRUE
    /\ peer = [c \in Conns |-> "open"]
    /\ config = [configured |-> 6, wordcount |-> 6,
                 workspace_dir |-> DefaultWorkspaceDir]
    /\ anpath = NoPath

SpecEntry == InitEntry /\ [][NextEntry]_vars

----------------------------------------------------------------------------
(* The identity store, its functions called directly.  Workspace w3 is an  *)
(* alias of w1.                                                            *)

StoreWids == {"w1", "w4"}
StoreStatuses == {"active", "Disabled", "awaiting"}
Addresses ==
    {"w1/example.com", "w2/example.com", "w3/example.com", "w4/example.com",
     "u1/example.com", "u4/example.com", "u 1/example.com", "w1/example",
     "w1"}

StoreFrame ==
    /\ UNCHANGED <<sessions, prereg, devices, failure_log, keycards, now,
                   attempts, aliases, card, atb, pending, redeemed,
                   running, peer, config, anpath>>

CallResolveAddress(addr) ==
    /\ \E o \in ResolveAddress(workspaces, aliases, addr) :
          last' = [n |-> 1 - last.n, conn |-> "",
                   req |-> [Action |-> "ResolveAddress", addr |-> addr],
                   code |-> o.wid, err |-> o.err]
    /\ UNCHANGED workspaces
    /\ UNCHANGED plain
    /\ StoreFrame

CallAddWorkspace(wid, uid, domain, password, status, wtype) ==
    /\ \E salt \in Salts :
          LET o == AddWorkspace(workspaces, wid, uid, domain, password,
                                status, wtype, salt) IN
          /\ workspaces' = o.table
          /\ last' = [n |-> 1 - last.n, conn |-> "",
                      req |-> [Action |-> "AddWorkspace", wid |-> wid],
                      code |-> "", err |-> o.err]
    /\ UNCHANGED plain
    /\ StoreFrame

CallRemoveWorkspace(wid) ==
    /\ LET o == RemoveWorkspace(workspaces, wid) IN
          /\ workspaces' = o.table
          /\ last' = [n |-> 1 - last.n, conn |-> "",
                      req |-> [Action |-> "RemoveWorkspace", wid |-> wid],
                      code |-> "", err |-> o.err]
    /\ UNCHANGED plain
    /\ StoreFrame

CallSetWorkspaceStatus(wid, status) ==
    /\ LET o == SetWorkspaceStatus(workspaces, wid, status) IN
          /\ workspaces' = o.table
          /\ last' = [n |-> 1 - last.n, conn |-> "",
                      req |-> [Action |-> "SetWorkspaceStatus", wid |-> wid,
                               status |-> status],
                      code |-> "", err |-> o.err]
    /\ UNCHANGED plain
    /\ StoreFrame

CallSetPassword(wid, password, mode) ==
    /\ \E salt \in Salts :
          LET o == SetPassword(workspaces, wid, password, mode, salt) IN
          /\ workspaces' = o.table
          /\ plain' = IF o.err \/ (\A r \in workspaces : r.wid # wid)
                      THEN plain
                      ELSE [plain EXCEPT ![wid] = password]
          /\ last' = [n |-> 1 - last.n, conn |-> "",
                      req |-> [Action |-> "SetPassword", wid |-> wid,
                               mode |-> mode],
                      code |-> "", err |-> o.err]
    /\ StoreFrame

NextStore ==
    \/ \E addr \in Addresses : CallResolveAddress(addr)
    \/ \E wid \in StoreWids :
          CallAddWorkspace(wid, "u4", "example.com", "p1", "active",
                           "individual")
    \/ \E wid \in StoreWids : CallRemoveWorkspace(wid)
    \/ \E wid \in StoreWids, status \in StoreStatuses :
          CallSetWorkspaceStatus(wid, status)
    \/ \E wid \in StoreWids : CallSetPassword(wid, "p2", "normal")

InitStore ==
    /\ sessions = [c \in Conns |->
                       [open |-> FALSE, PasswordFailures |-> 0,
                        LoginState |-> loginNoSession,
                        IsTerminating |-> FALSE, WID |-> ""]]
    /\ workspaces = InitialWorkspaces \cup
                      {[wid |-> "w3", uid |-> "", domain |-> "example.com",
                        password |-> hashPassword("p1", "normal", "s1"),
                        status |-> "active", wtype |-> "alias"]}
    /\ prereg = {}
    /\ devices = {}
    /\ failure_log = {}
    /\ keycards = {}
    /\ now = 1
    /\ last = [n |-> 0, conn |-> "", req |-> [Action |-> ""], code |-> "",
               err |-> FALSE]
    /\ attempts = [k \in Wids \X Sources |-> [n |-> 0, at |-> 0]]
    /\ aliases = {[wid_alias |-> "w3", wid_target |-> "w1"]}
    /\ card = NoEntry
    /\ atb = NoAlgoString
    /\ pending = [a \in Clients |-> NoAppend]
    /\ redeemed = {}
    /\ plain = [w \in UUIDs |-> ""]
    /\ running = TRUE
    /\ peer = [c \in Conns |-> "open"]
    /\ config = [configured |-> 6, wordcount |-> 6,
                 workspace_dir |-> DefaultWorkspaceDir]
    /\ anpath = NoPath

SpecStore == InitStore /\ [][NextStore]_vars

----------------------------------------------------------------------------
(* Registration codes.  The REGCODE handler is not among the sources: by   *)
(* spec.md 4.6 it redeems the code, materializes the workspace and then    *)
(* deletes the preregistration.  redeemed records the redemptions that     *)
(* succeeded and whose preregistration was not issued again since.         *)

PreregWids == {"w3", "w4"}
PreregUids == {"", "u3"}
RegCodes == {"rc1", "rc2"}
RegIds == PreregWids \cup {"u3"}

PreregFrame ==
    /\ UNCHANGED <<sessions, devices, failure_log, keycards, now, attempts,
                   aliases, card, atb, pending, plain, running, peer,
                   config, anpath>>

CallPreregWorkspace(wid, uid, domain) ==
    /\ \E regcode \in RegCodes :
          LET o == PreregWorkspace(prereg, wid, uid, domain, regcode) IN
          /\ prereg' = o.table
          /\ redeemed' = IF o.err THEN redeemed
                         ELSE redeemed \ {<<wid, domain, regcode, TRUE>>,
                                          <<uid, domain, regcode, FALSE>>}
          /\ last' = [n |-> 1 - last.n, conn |-> "",
                      req |-> [Action |-> "PREREG", wid |-> wid, uid |-> uid,
                               domain |-> domain],
                      code |-> o.regcode, err |-> o.err]
    /\ UNCHANGED workspaces
    /\ PreregFrame

commandRegCode(id, domain, iswid, regcode, password) ==
    /\ \E o \in CheckRegCode(prereg, id, domain, iswid, regcode) :
          /\ IF o.err = ""
             THEN /\ \E salt \in Salts :
                        workspaces' =
                          AddWorkspace(workspaces, o.wid, o.uid, domain,
                                       password, "active", "individual",
                                       salt).table
                  /\ prereg' = DeleteRegCode(prereg, id, domain, iswid,
                                             regcode)
                  /\ redeemed' = redeemed \cup
                                     {<<id, domain, regcode, iswid>>}
             ELSE UNCHANGED <<workspaces, prereg, redeemed>>
          /\ last' = [n |-> 1 - last.n, conn |-> "",
                      req |-> [Action |-> "REGCODE", id |-> id,
                               domain |-> domain, iswid |-> iswid,
                               regcode |-> regcode],
                      code |-> o.err, err |-> (o.err # "")]
    /\ PreregFrame

NextPrereg ==
    \/ \E wid \in PreregWids, uid \in PreregUids :
          CallPreregWorkspace(wid, uid, "example.com")
    \/ \E id \in RegIds, regcode \in RegCodes :
          commandRegCode(id, "example.com", id \in PreregWids, regcode, "p1")

SpecPrereg == InitStore /\ [][NextPrereg]_vars

----------------------------------------------------------------------------
(* The device table, its functions called directly *)

DeviceWids == {"w1", "w2"}
DeviceIds == {"d1", "d2"}

DeviceFrame ==
    /\ UNCHANGED <<sessions, workspaces, prereg, failure_log, keycards, now,
                   attempts, aliases, card, atb, pending, redeemed, plain,
                   running, peer, config, anpath>>

CallAddDevice(wid, devid, devkey) ==
    /\ LET o == AddDevice(devices, wid, devid, devkey, "active") IN
          /\ devices' = o.table
          /\ last' = [n |-> 1 - last.n, conn |-> "",
                      req |-> [Action |-> "AddDevice", wid |-> wid,
                               devid |-> devid, devkey |-> devkey],
                      code |-> "", err |-> o.err]
    /\ DeviceFrame

CallUpdateDevice(wid, devid, oldkey, newkey) ==
    /\ LET o == UpdateDevice(devices, wid, devid, oldkey, newkey) IN
          /\ devices' = o.table
          /\ last' = [n |-> 1 - last.n, conn |-> "",
                      req |-> [Action |-> "UpdateDevice", wid |-> wid,
                               devid |-> devid, oldkey |-> oldkey,
                               newkey |-> newkey],
                      code |-> "", err |-> o.err]
    /\ DeviceFrame

CallCheckDevice(wid, devid, devkey) ==
    /\ last' = [n |-> 1 - last.n, conn |-> "",
                req |-> [Action |-> "CheckDevice", wid |-> wid,
                         devid |-> devid, devkey |-> devkey],
                code |-> CheckDevice(devices, wid, devid, devkey),
                err |-> FALSE]
    /\ UNCHANGED devices
    /\ DeviceFrame

NextDevices ==
    \/ \E wid \in DeviceWids, devid \in DeviceIds, devkey \in DevKeys :
          CallAddDevice(wid, devid, devkey)
    \/ \E wid \in DeviceWids, devid \in DeviceIds, oldkey, newkey \in DevKeys :
          CallUpdateDevice(wid, devid, oldkey, newkey)
    \/ \E wid \in DeviceWids, devid \in DeviceIds, devkey \in DevKeys :
          CallCheckDevice(wid, devid, devkey)

SpecDevices == InitStore /\ [][NextDevices]_vars

----------------------------------------------------------------------------
(* Passwords: SetPassword and CheckPassword called directly, the          *)
(* security.password_security mode of the configuration differing from    *)
(* call to call                                                            *)

PasswordWids == {"w1", "w2"}
PasswordModes == {"", "enhanced", "Enhanced"}
PasswordSalts == {"s1", "s2"}

CallSetPasswordSalted(wid, password, mode) ==
    /\ \E salt \in PasswordSalts :
          LET o == SetPassword(workspaces, wid, password, mode, salt) IN
          /\ workspaces' = o.table
          /\ plain' = IF o.err \/ (\A r \in workspaces : r.wid # wid)
                      THEN plain
                      ELSE [plain EXCEPT ![wid] = password]
          /\ last' = [n |-> 1 - last.n, conn |-> "",
                      req |-> [Action |-> "SetPassword", wid |-> wid,
                               mode |-> mode],
                      code |-> "", err |-> o.err]
    /\ StoreFrame

CallCheckPassword(wid, password) ==
    /\ \E o \in CheckPassword(workspaces, wid, password) :
          last' = [n |-> 1 - last.n, conn |-> "",
                   req |-> [Action |-> "CheckPassword", wid |-> wid,
                            pw |-> password],
                   code |-> o.ok, err |-> o.err]
    /\ UNCHANGED <<workspaces, plain>>
    /\ StoreFrame

NextPassword ==
    \/ \E wid \in PasswordWids, pw \in Passwords, mode \in PasswordModes :
          CallSetPasswordSalted(wid, pw, mode)
    \/ \E wid \in PasswordWids, pw \in Passwords : CallCheckPassword(wid, pw)

SpecPassword == InitStore /\ [][NextPassword]_vars

----------------------------------------------------------------------------
(* Reading the keycard table.  The table holds, at startup, rows that     *)
(* AddEntry wrote: any of the entries with index 1 to 3 of the            *)
(* organization and of workspace w1.                                       *)

StoredEntries ==
    {e \in Entries :
       /\ e.Signatures = [Custody |-> SigBy(EntryKey),
                          Organization |-> SigBy(CurrentOrgKey)]
       /\ e.PrevHash = "" /\ e.Hash = "h1"
       /\ e.Type = "Organization" => "Type" \in DOMAIN e.Fields}

StoredTables ==
    {UNION {AddEntry({}, e).table : e \in S} : S \in SUBSET StoredEntries}

QueryIndexes == -1..3
QueryOwners == {"w1", "w2"}

QueryFrame ==
    /\ UNCHANGED <<sessions, workspaces, prereg, devices, failure_log,
                   keycards, now, attempts, aliases, card, atb, pending,
                   redeemed, plain, running, peer, config, anpath>>

CallGetOrgEntries(startIndex, endIndex) ==
    /\ LET o == GetOrgEntries(keycards, startIndex, endIndex) IN
          last' = [n |-> 1 - last.n, conn |-> "",
                   req |-> [Action |-> "GetEntries", owner |-> "organization",
                            startIndex |-> startIndex,
                            endIndex |-> endIndex],
                   code |-> o.out, err |-> o.err]
    /\ QueryFrame

CallGetUserEntries(wid, startIndex, endIndex) ==
    /\ LET o == GetUserEntries(keycards, wid, startIndex, endIndex) IN
          last' = [n |-> 1 - last.n, conn |-> "",
                   req |-> [Action |-> "GetEntries", owner |-> wid,
                            startIndex |-> startIndex,
                            endIndex |-> endIndex],
                   code |-> o.out, err |-> o.err]
    /\ QueryFrame

NextQuery ==
    \/ \E startIndex, endIndex \in QueryIndexes :
          CallGetOrgEntries(startIndex, endIndex)
    \/ \E wid \in QueryOwners, startIndex, endIndex \in QueryIndexes :
          CallGetUserEntries(wid, startIndex, endIndex)

InitQuery ==
    /\ sessions = [c \in Conns |->
                       [open |-> FALSE, PasswordFailures |-> 0,
                        LoginState |-> loginNoSession,
                        IsTerminating |-> FALSE, WID |-> ""]]
    /\ workspaces = InitialWorkspaces
    /\ prereg = {}
    /\ devices = {}
    /\ failure_log = {}
    /\ keycards \in StoredTables
    /\ now = 1
    /\ last = [n |-> 0, conn |-> "", req |-> [Action |-> ""], code |-> <<>>,
               err |-> FALSE]
    /\ attempts = [k \in Wids \X Sources |-> [n |-> 0, at |-> 0]]
    /\ aliases = {}
    /\ card = NoEntry
    /\ atb = NoAlgoString
    /\ pending = [a \in Clients |-> NoAppend]
    /\ redeemed = {}
    /\ plain = [w \in UUIDs |-> ""]
    /\ running = TRUE
    /\ peer = [c \in Conns |-> "open"]
    /\ config = [configured |-> 6, wordcount |-> 6,
                 workspace_dir |-> DefaultWorkspaceDir]
    /\ anpath = NoPath

SpecQuery == InitQuery /\ [][NextQuery]_vars

----------------------------------------------------------------------------
(* Preregistrations in two domains, one call after the other *)

PreregDomains == {"example.com", "example.org"}

NextPreregister ==
    \E wid \in PreregWids, uid \in PreregUids, domain \in PreregDomains :
       CallPreregWorkspace(wid, uid, domain)

SpecPreregister == InitStore /\ [][NextPreregister]_vars

----------------------------------------------------------------------------
(* Concurrent redemptions.  Each connection has its own worker, so the    *)
(* REGCODE commands of two clients interleave between the statements they *)
(* run: CheckRegCode, then AddWorkspace, then DeleteRegCode (spec.md 4.6). *)
(* A store error aborts the command (spec.md 7).                           *)

InitialPrereg ==
    {[wid |-> "w3", uid |-> "u3", domain |-> "example.com",
      regcode |-> "rc1"],
     [wid |-> "w4", uid |-> "", domain |-> "example.com", regcode |-> "rc2"]}

\* The password each client registers with
ClientPassword == [a \in Clients |-> IF a = "a1" THEN "p1" ELSE "p2"]

NoRedeem ==
    [state |-> "idle", id |-> "", iswid |-> FALSE, regcode |-> "",
     wid |-> "", uid |-> ""]

RedeemFrame ==
    /\ UNCHANGED <<sessions, devices, failure_log, keycards, now, last,
                   attempts, aliases, card, atb, redeemed, plain,
                   running, peer, config, anpath>>

RegCodeCheck(a, id, iswid, regcode) ==
    /\ pending[a].state = "idle"
    /\ \E o \in CheckRegCode(prereg, id, "example.com", iswid, regcode) :
          pending' = [pending EXCEPT ![a] =
                        [state |-> IF o.err = "" THEN "checked" ELSE "failed",
                         id |-> id, iswid |-> iswid, regcode |-> regcode,
                         wid |-> o.wid, uid |-> o.uid]]
    /\ UNCHANGED <<workspaces, prereg>>
    /\ RedeemFrame

RegCodeAdd(a) ==
    /\ pending[a].state = "checked"
    /\ \E salt \in Salts :
          LET o == AddWorkspace(workspaces, pending[a].wid, pending[a].uid,
                                "example.com", ClientPassword[a], "active",
                                "individual", salt) IN
          /\ workspaces' = o.table
          /\ pending' = [pending EXCEPT ![a].state =
                            IF o.err THEN "aborted" ELSE "added"]
    /\ UNCHANGED prereg
    /\ RedeemFrame

RegCodeDelete(a) ==
    /\ pending[a].state = "added"
    /\ prereg' = DeleteRegCode(prereg, pending[a].id, "example.com",
                               pending[a].iswid, pending[a].regcode)
    /\ pending' = [pending EXCEPT ![a].state = "ok"]
    /\ UNCHANGED workspaces
    /\ RedeemFrame

NextRedeem ==
    \/ \E a \in Clients, id \in RegIds, regcode \in RegCodes :
          RegCodeCheck(a, id, id \in PreregWids, regcode)
    \/ \E a \in Clients : RegCodeAdd(a)
    \/ \E a \in Clients : RegCodeDelete(a)

InitRedeem ==
    /\ sessions = [c \in Conns |->
                       [open |-> FALSE, PasswordFailures |-> 0,
                        LoginState |-> loginNoSession,
                        IsTerminating |-> FALSE, WID |-> ""]]
    /\ workspaces = InitialWorkspaces
    /\ prereg = InitialPrereg
    /\ devices = {}
    /\ failure_log = {}
    /\ keycards = {}
    /\ now = 1
    /\ last = [n |-> 0, conn |-> "", req |-> [Action |-> ""], code |-> "",
               err |-> FALSE]
    /\ attempts = [k \in Wids \X Sources |-> [n |-> 0, at |-> 0]]
    /\ aliases = {}
    /\ card = NoEntry
    /\ atb = NoAlgoString
    /\ pending = [a \in Clients |-> NoRedeem]
    /\ redeemed = {}
    /\ plain = [w \in UUIDs |-> ""]
    /\ running = TRUE
    /\ peer = [c \in Conns |-> "open"]
    /\ config = [configured |-> 6, wordcount |-> 6,
                 workspace_dir |-> DefaultWorkspaceDir]
    /\ anpath = NoPath

SpecRedeem == InitRedeem /\ [][NextRedeem]_vars

----------------------------------------------------------------------------
(* Store errors while a command is handled.  A panic in a worker goroutine *)
(* that nothing recovers ends the process, and with it every connection.   *)

\* What row.Scan can fail with besides sql.ErrNoRows: nothing, a *pq.Error,
\* or an error of another type (driver.ErrBadConn, a conversion error)
ScanFaults == {"", "pq", "other"}

\* CheckWorkspace(wid) when its two queries fail with fault1 and fault2: the
\* possible results [exists, status, panic].  In `switch err` the case
\* err.(*pq.Error) is evaluated for every err that is neither sql.ErrNoRows
\* nor nil, and the unchecked assertion panics unless err is a *pq.Error:
\* the default branch is never reached
CheckWorkspaceFault(ws, pr, wid, fault1, fault2) ==
    LET rows == {r \in ws : r.wid = wid}
        Panic == [exists |-> FALSE, status |-> "", panic |-> TRUE]
        Failed == [exists |-> FALSE, status |-> "", panic |-> FALSE]
    IN  IF fault1 = "other" THEN {Panic}
        ELSE IF fault1 = "pq" THEN {Failed}
        ELSE IF rows # {}
        THEN {[exists |-> TRUE, status |-> r.status, panic |-> FALSE] :
                r \in rows}
        ELSE IF fault2 = "other" THEN {Panic}
        ELSE IF fault2 = "pq" THEN {Failed}
        ELSE IF \E r \in pr : r.wid = wid
        THEN {[exists |-> TRUE, status |-> "approved", panic |-> FALSE]}
        ELSE {Failed}

FaultWids == {"w1", "w4"}

FaultFrame ==
    /\ UNCHANGED <<prereg, devices, failure_log, keycards, now, attempts,
                   aliases, card, atb, pending, redeemed, plain, peer,
                   config, anpath>>

\* The worker of connection c handles a command that looks wid up
CallCheckWorkspace(c, wid, fault1, fault2) ==
    /\ running
    /\ sessions[c].open
    /\ \E o \in CheckWorkspaceFault(workspaces, prereg, wid, fault1, fault2) :
          /\ last' = [n |-> 1 - last.n, conn |-> c,
                      req |-> [Action |-> "CheckWorkspace", wid |-> wid,
                               fault1 |-> fault1, fault2 |-> fault2],
                      code |-> o.status, err |-> o.panic]
          /\ running' = ~o.panic
          /\ sessions' = IF o.panic
                         THEN [d \in Conns |->
                                  [sessions[d] EXCEPT !.open = FALSE]]
                         ELSE sessions
    /\ UNCHANGED workspaces
    /\ FaultFrame

NextFaults ==
    \/ \E c \in Conns : running /\ Accept(c)
    \/ \E c \in Conns : running /\ Quit(c)
    \/ \E wid \in FaultWids, status \in StoreStatuses :
          running /\ CallSetWorkspaceStatus(wid, status)
    \/ \E wid \in FaultWids : running /\ CallRemoveWorkspace(wid)
    \/ \E c \in Conns, wid \in FaultWids, fault1, fault2 \in ScanFaults :
          CallCheckWorkspace(c, wid, fault1, fault2)

SpecFaults == InitStore /\ [][NextFaults]_vars

----------------------------------------------------------------------------
(* main.go: the read loop of the connection worker, one turn at a time,   *)
(* with every result the read can have                                     *)

\* What conn.Read comes back with: bytes, the elapsed deadline, end-of-file
\* once the client has closed its end, or another error
ReadKinds == {"data", "timeout", "eof", "error"}

\* A read of nothing but white space: the pattern finds no token
NoRequest == [Action |-> ""]

WorkerRequests == Requests \cup {NoRequest, [Action |-> "QUIT"]}

Reads ==
    [kind : {"data"}, req : WorkerRequests]
    \cup [kind : ReadKinds \ {"data"}, req : {NoRequest}]

\* ReadClient without line 116: the timeout leaves the session unmarked
ReadClientUnmarked(s, read) ==
    CASE read.kind = "timeout" ->
            [s |-> s, text |-> NoRequest, err |-> "connection timed out"]
      [] read.kind = "eof" -> [s |-> s, text |-> NoRequest, err |-> "EOF"]
      [] read.kind = "error" ->
            [s |-> s, text |-> NoRequest, err |-> "connection reset by peer"]
      [] OTHER -> [s |-> s, text |-> read.req, err |-> ""]

\* ReadClient, lines 111-128: the session, the string and the error it
\* returns
ReadClient(s, read) ==
    CASE read.kind = "timeout" ->
            [s |-> [s EXCEPT !.IsTerminating = TRUE], text |-> NoRequest,
             err |-> "connection timed out"]
      [] read.kind = "eof" -> [s |-> s, text |-> NoRequest, err |-> "EOF"]
      [] read.kind = "error" ->
            [s |-> s, text |-> NoRequest, err |-> "connection reset by peer"]
      [] OTHER -> [s |-> s, text |-> read.req, err |-> ""]

\* connectionWorker, lines 369-387: one turn of the loop once ReadClient
\* has returned rc.  handled: processCommand was called; leave: the turn
\* ends in a break, and the deferred conn.Close() runs
LoopTurn(s, ip, rc) ==
    LET Idle(leave) ==
            {[s |-> rc.s, fl |-> failure_log, dev |-> devices, code |-> 0,
              handled |-> FALSE, leave |-> leave]}
    IN  IF rc.err # "" /\ rc.err # "EOF" THEN Idle(TRUE)
        ELSE IF rc.text.Action = "" THEN Idle(rc.s.IsTerminating)
        ELSE IF rc.text.Action = "QUIT" THEN Idle(TRUE)
        ELSE {[s |-> o.s, fl |-> o.fl, dev |-> o.dev, code |-> o.code,
               handled |-> TRUE, leave |-> o.s.IsTerminating] :
                o \in processCommand(rc.s, ip, rc.text)}

WorkerFrame ==
    /\ UNCHANGED <<workspaces, prereg, keycards, now, aliases, card, atb,
                   pending, redeemed, plain, running, config, anpath>>

\* The worker of connection c takes one turn of its loop; the read returns
\* end-of-file exactly when the client has closed its end
Turn(c, read) ==
    /\ running
    /\ sessions[c].open
    /\ (read.kind = "eof") <=> (peer[c] = "closed")
    /\ \/ read.req.Action # "PASSWORD"
       \/ sessions[c].PasswordFailures < MaxSessionFailures
    /\ \E o \in LoopTurn(sessions[c], RemoteAddr[c],
                         ReadClient(sessions[c], read)) :
          /\ sessions' = [sessions EXCEPT ![c] =
                              [o.s EXCEPT !.open = ~o.leave]]
          /\ failure_log' = o.fl
          /\ devices' = o.dev
          /\ last' = [n |-> 1 - last.n, conn |-> c, req |-> read.req,
                      code |-> o.code, err |-> FALSE, read |-> read.kind,
                      handled |-> o.handled]
          /\ attempts' = NoteAttempt(c, sessions[c], o)
    /\ UNCHANGED peer
    /\ WorkerFrame

\* The client closes its end of the connection
ClientCloses(c) ==
    /\ sessions[c].open
    /\ peer[c] = "open"
    /\ peer' = [peer EXCEPT ![c] = "closed"]
    /\ UNCHANGED <<sessions, failure_log, devices, last, attempts>>
    /\ WorkerFrame

WorkerTurn(c) == \E read \in Reads : Turn(c, read)

NextWorker ==
    \/ \E c \in Conns : Accept(c)
    \/ \E c \in Conns : WorkerTurn(c)
    \/ \E c \in Conns : ClientCloses(c)

InitWorker ==
    /\ sessions = [c \in Conns |->
                       [open |-> FALSE, PasswordFailures |-> 0,
                        LoginState |-> loginNoSession,
                        IsTerminating |-> FALSE, WID |-> ""]]
    /\ workspaces = InitialWorkspaces
    /\ prereg = {}
    /\ devices = {}
    /\ failure_log \in InitialFailureLogs
    /\ keycards = {}
    /\ now = 1
    /\ last = [n |-> 0, conn |-> "", req |-> NoRequest, code |-> 0,
               err |-> FALSE, read |-> "", handled |-> FALSE]
    /\ attempts = [k \in Wids \X Sources |-> [n |-> 0, at |-> 0]]
    /\ aliases = {}
    /\ card = NoEntry
    /\ atb = NoAlgoString
    /\ pending = [a \in Clients |-> NoAppend]
    /\ redeemed = {}
    /\ plain = [w \in UUIDs |-> ""]
    /\ running = TRUE
    /\ peer = [c \in Conns |-> "open"]
    /\ config = [configured |-> 6, wordcount |-> 6,
                 workspace_dir |-> DefaultWorkspaceDir]
    /\ anpath = NoPath

SpecWorker == InitWorker /\ [][NextWorker]_vars

\* The scheduler runs every goroutine, and a read returns: with bytes, with
\* end-of-file, with an error, or at the latest when its deadline elapses
SpecWorkerFair == SpecWorker /\ \A c \in Conns : WF_vars(WorkerTurn(c))

----------------------------------------------------------------------------
(* A keycard entry in memory: hashing, compliance, expiration and edits *)

HashAlgorithms ==
    {"BLAKE3-256", "BLAKE2B-256", "BLAKE2", "SHA-256", "SHA3-256", "MD5"}

CallGenerateHash(algorithm) ==
    /\ LET o == GenerateHash(card, algorithm) IN
          /\ card' = o.eb
          /\ last' = [n |-> 1 - last.n, conn |-> "",
                      req |-> [Action |-> "GenerateHash",
                               algorithm |-> algorithm],
                      code |-> o.sum, err |-> o.err]
    /\ UNCHANGED atb
    /\ NoStore

KeycardEdits ==
    {<<"Name", "">>, <<"Expires", "20270101">>, <<"Contact-Admin", "w1">>,
     <<"Nickname", "al">>, <<"", "acme">>}

KeycardKeys == {[Prefix |-> "ED25519", Data |-> "sk1"]}

KeycardSigTypes == {"Custody", "Organization"}

NextKeycard ==
    \/ \E algorithm \in HashAlgorithms : CallGenerateHash(algorithm)
    \/ \E k \in KeycardKeys, t \in KeycardSigTypes : CallSign(k, t)
    \/ \E e \in KeycardEdits : CallSetField(e[1], e[2])

SpecKeycard == InitEntry /\ [][NextKeycard]_vars

\* time.Time.Format(layout) of the day t, counted from 1970-01-01: the
\* reference elements 2006, 01 and 02 of the layout are replaced by the
\* year, month and day, and every other character stands for itself
RECURSIVE Format(_, _)
Format(t, layout) ==
    LET z == t + 719468
        era == z \div 146097
        doe == z - era * 146097
        yoe == (doe - doe \div 1460 + doe \div 36524 - doe \div 146096)
                  \div 365
        doy == doe - (365 * yoe + yoe \div 4 - yoe \div 100)
        mp == (5 * doy + 2) \div 153
        day == doy - (153 * mp + 2) \div 5 + 1
        month == IF mp < 10 THEN mp + 3 ELSE mp - 9
        year == yoe + era * 400 + (IF month <= 2 THEN 1 ELSE 0)
        Two(n) == IF n < 10 THEN "0" \o ToString(n) ELSE ToString(n)
        Rest(n) == Format(t, SubSeq(layout, n + 1, Len(layout)))
    IN  IF layout = "" THEN ""
        ELSE IF HasPrefix(layout, "2006") THEN ToString(year) \o Rest(4)
        ELSE IF HasPrefix(layout, "01") THEN Two(month) \o Rest(2)
        ELSE IF HasPrefix(layout, "02") THEN Two(day) \o Rest(2)
        ELSE SubSeq(layout, 1, 1) \o Rest(1)

\* SetExpiration(numdays) on the day today: [err, eb].  The receiver is a
\* copy, but its Fields map is that of the caller's entry
SetExpiration(eb, numdays, today) ==
    IF numdays < 0 /\ eb.Type \notin {"Organization", "User"}
    THEN [err |-> TRUE, eb |-> eb]
    ELSE LET days == IF numdays >= 0 THEN numdays
                     ELSE IF eb.Type = "Organization" THEN 365 ELSE 90
             capped == IF days > 1095 THEN 1095 ELSE days
         IN  [err |-> FALSE,
              eb |-> [eb EXCEPT !.Fields =
                        Put(@, "Expiration",
                            Format(today + capped, "%Y%m%d"))]]

\* SetFields(fields): the entry after the call.  The new Signatures map is
\* assigned to the copy's field and lost
SetFields(eb, fields) ==
    [eb EXCEPT !.Fields =
        [x \in DOMAIN eb.Fields \cup DOMAIN fields |->
           IF x \in DOMAIN fields THEN fields[x] ELSE eb.Fields[x]]]

\* NewOrgEntry on the day today: [panic, eb].  new(OrgEntry) gives the zero
\* value, whose Fields is the nil map, and the assignment to
\* self.Fields["Index"] panics before anything is returned
NewOrgEntry(today) ==
    LET allocated == FALSE
        self == [NewEntry("Organization") EXCEPT
                   !.Fields = [x \in {"Index", "Time-To-Live"} |->
                                 IF x = "Index" THEN "1" ELSE "30"]]
    IN  IF ~allocated THEN [panic |-> TRUE, eb |-> NewEntry("Organization")]
        ELSE [panic |-> FALSE, eb |-> SetExpiration(self, -1, today).eb]

----------------------------------------------------------------------------
(* Organization and user entries a caller has filled in, signed and        *)
(* hashed: compliance, expiration and later edits                          *)

ComplyCards ==
    LET required == {OrgRequiredFields[i] : i \in 1..Len(OrgRequiredFields)}
        Filled(names, index) ==
            [x \in names |-> IF x = "Index" THEN index ELSE "v"]
        Signed(names) == [x \in names |-> "ED25519:s1"]
    IN  [Type : {"Organization"},
         Fields : {Filled(required, "1"), Filled(required, "2"),
                   Filled(required \ {"Name"}, "1")},
         Signatures : {Signed({}), Signed({"Organization"}),
                       Signed({"Custody", "Organization"}),
                       [x \in {"Organization"} |-> ""]},
         PrevHash : {""}, Hash : {"", "BLAKE2:h1"}]
        \cup [Type : {"User"},
              Fields : {Filled({"Index", "Workspace-ID"}, "1")},
              Signatures : {Signed({"Organization", "User"})},
              PrevHash : {""}, Hash : {"BLAKE2:h1"}]

ComplyEdits == {<<"Name", "evil">>, <<"", "evil">>}
ComplyFieldSets ==
    {[x \in {"Name"} |-> "evil"],
     [x \in {"Name", "Language"} |-> IF x = "Name" THEN "v" ELSE "en"]}
ExpirationDays == {-1, 0, 30, 1095, 1096}
Today == {19781, 20762}     \* 2024-02-28 and 2026-11-05

\* The required fields of a user entry are set by a constructor that is not
\* among the sources: only organization entries are asked
CallIsCompliant ==
    /\ running
    /\ card.Type = "Organization"
    /\ last' = [n |-> 1 - last.n, conn |-> "",
                req |-> [Action |-> "IsCompliant"],
                code |-> IsCompliant(card), err |-> FALSE]
    /\ UNCHANGED <<card, atb>>
    /\ NoStore

CallSetFields(fields) ==
    /\ running
    /\ card' = SetFields(card, fields)
    /\ last' = [n |-> 1 - last.n, conn |-> "",
                req |-> [Action |-> "SetFields", fields |-> fields],
                code |-> 0, err |-> FALSE]
    /\ UNCHANGED atb
    /\ NoStore

CallSetExpiration(numdays, today) ==
    /\ running
    /\ LET o == SetExpiration(card, numdays, today) IN
          /\ card' = o.eb
          /\ last' = [n |-> 1 - last.n, conn |-> "",
                      req |-> [Action |-> "SetExpiration",
                               numdays |-> numdays, today |-> today],
                      code |-> 0, err |-> o.err]
    /\ UNCHANGED atb
    /\ NoStore

\* A panic that nothing recovers ends the process
CallNewOrgEntry(today) ==
    /\ running
    /\ LET o == NewOrgEntry(today) IN
          /\ card' = IF o.panic THEN card ELSE o.eb
          /\ running' = ~o.panic
          /\ last' = [n |-> 1 - last.n, conn |-> "",
                      req |-> [Action |-> "NewOrgEntry", today |-> today],
                      code |-> 0, err |-> o.panic]
    /\ UNCHANGED <<sessions, workspaces, prereg, devices, failure_log,
                   keycards, now, attempts, aliases, pending, redeemed,
                   plain, peer, atb, config, anpath>>

NextComply ==
    \/ CallIsCompliant
    \/ \E e \in ComplyEdits : running /\ CallSetField(e[1], e[2])
    \/ \E fields \in ComplyFieldSets : CallSetFields(fields)
    \/ \E numdays \in ExpirationDays, today \in Today :
          CallSetExpiration(numdays, today)
    \/ \E today \in Today : CallNewOrgEntry(today)

InitComply ==
    /\ sessions = [c \in Conns |->
                       [open |-> FALSE, PasswordFailures |-> 0,
                        LoginState |-> loginNoSession,
                        IsTerminating |-> FALSE, WID |-> ""]]
    /\ workspaces = InitialWorkspaces
    /\ prereg = {}
    /\ devices = {}
    /\ failure_log = {}
    /\ keycards = {}
    /\ now = 1
    /\ last = [n |-> 0, conn |-> "", req |-> [Action |-> ""], code |-> 0,
               err |-> FALSE]
    /\ attempts = [k \in Wids \X Sources |-> [n |-> 0, at |-> 0]]
    /\ aliases = {}
    /\ card \in ComplyCards
    /\ atb = NoAlgoString
    /\ pending = [a \in Clients |-> NoAppend]
    /\ redeemed = {}
    /\ plain = [w \in UUIDs |-> ""]
    /\ running = TRUE
    /\ peer = [c \in Conns |-> "open"]
    /\ config = [configured |-> 6, wordcount |-> 6,
                 workspace_dir |-> DefaultWorkspaceDir]
    /\ anpath = NoPath

SpecComply == InitComply /\ [][NextComply]_vars

----------------------------------------------------------------------------
(* Passwords and workspaces when the random source may fail *)

RandSalts == {"s1", RandFailed}
RandWids == {"w1", "w4"}

CallSetPasswordRand(wid, password, salt) ==
    /\ LET o == SetPassword(workspaces, wid, password, "", salt) IN
          /\ workspaces' = o.table
          /\ plain' = IF o.err \/ (\A r \in workspaces : r.wid # wid)
                      THEN plain
                      ELSE [plain EXCEPT ![wid] = password]
          /\ last' = [n |-> 1 - last.n, conn |-> "",
                      req |-> [Action |-> "SetPassword", wid |-> wid,
                               pw |-> password, salt |-> salt],
                      code |-> "", err |-> o.err]
    /\ StoreFrame

CallAddWorkspaceRand(wid, password, salt) ==
    /\ LET o == AddWorkspace(workspaces, wid, "", "example.com", password,
                             "active", "individual", salt) IN
          /\ workspaces' = o.table
          /\ last' = [n |-> 1 - last.n, conn |-> "",
                      req |-> [Action |-> "AddWorkspace", wid |-> wid,
                               pw |-> password, salt |-> salt],
                      code |-> "", err |-> o.err]
    /\ UNCHANGED plain
    /\ StoreFrame

NextRand ==
    \/ \E wid \in RandWids, pw \in Passwords, salt \in RandSalts :
          CallSetPasswordRand(wid, pw, salt)
    \/ \E wid \in RandWids, pw \in Passwords, salt \in RandSalts :
          CallAddWorkspaceRand(wid, pw, salt)
    \/ \E wid \in RandWids, pw \in Passwords : CallCheckPassword(wid, pw)
    \/ \E wid \in RandWids : CallRemoveWorkspace(wid)

SpecRand == InitStore /\ [][NextRand]_vars

----------------------------------------------------------------------------
(* The registration word count: the configuration file gives it, the      *)
(* startup code bounds it, and every registration code is rolled with it  *)

\* setupConfig, lines 273-278: the configuration once the word count of the
\* file has been looked at
setupConfig(configured) ==
    [configured |-> configured,
     wordcount |-> IF configured < 0 \/ configured > 12 THEN 0
                   ELSE configured,
     workspace_dir |-> DefaultWorkspaceDir]

ConfiguredWordcounts == (0 - 2)..14

\* The PREREG command: PreregWorkspace(wid, uid, domain, wordList, wordcount)
\* with the word count in use, regcode being what diceware rolls
CallPreregRolled(wid, uid, domain, regcode) ==
    /\ LET o == PreregWorkspace(prereg, wid, uid, domain, regcode) IN
          /\ prereg' = o.table
          /\ last' = [n |-> 1 - last.n, conn |-> "",
                      req |-> [Action |-> "PREREG", wid |-> wid, uid |-> uid,
                               domain |-> domain,
                               wordcount |-> config.wordcount],
                      code |-> o.regcode, err |-> o.err]
    /\ UNCHANGED <<workspaces, redeemed>>
    /\ PreregFrame

CallDeleteRegCode(id, domain, iswid, regcode) ==
    /\ prereg' = DeleteRegCode(prereg, id, domain, iswid, regcode)
    /\ last' = [n |-> 1 - last.n, conn |-> "",
                req |-> [Action |-> "DeleteRegCode", id |-> id],
                code |-> "", err |-> FALSE]
    /\ UNCHANGED <<workspaces, redeemed>>
    /\ PreregFrame

NextConfig ==
    \/ \E wid \in PreregWids, uid \in PreregUids, regcode \in RegCodes :
          CallPreregRolled(wid, uid, "example.com", regcode)
    \/ \E wid \in PreregWids, regcode \in RegCodes :
          CallDeleteRegCode(wid, "example.com", TRUE, regcode)

InitConfig ==
    /\ sessions = [c \in Conns |->
                       [open |-> FALSE, PasswordFailures |-> 0,
                        LoginState |-> loginNoSession,
                        IsTerminating |-> FALSE, WID |-> ""]]
    /\ workspaces = InitialWorkspaces
    /\ prereg = {}
    /\ devices = {}
    /\ failure_log = {}
    /\ keycards = {}
    /\ now = 1
    /\ last = [n |-> 0, conn |-> "", req |-> [Action |-> ""], code |-> "",
               err |-> FALSE]
    /\ attempts = [k \in Wids \X Sources |-> [n |-> 0, at |-> 0]]
    /\ aliases = {}
    /\ card = NoEntry
    /\ atb = NoAlgoString
    /\ pending = [a \in Clients |-> NoAppend]
    /\ redeemed = {}
    /\ plain = [w \in UUIDs |-> ""]
    /\ running = TRUE
    /\ peer = [c \in Conns |-> "open"]
    /\ config \in {setupConfig(n) : n \in ConfiguredWordcounts}
    /\ anpath = NoPath

SpecConfig == InitConfig /\ [][NextConfig]_vars

----------------------------------------------------------------------------
(* fshandler/path.go: Mensago paths and the LocalAnPath that translates    *)
(* them to paths of the local filesystem                                   *)

ErrBadPath == "invalid path"

DecimalDigits == {"0", "1", "2", "3", "4", "5", "6", "7", "8", "9"}
HexDigits ==
    DecimalDigits \cup {"a", "b", "c", "d", "e", "f",
                        "A", "B", "C", "D", "E", "F"}

\* The number of characters of s from position i on that lie in chars
RECURSIVE RunLength(_, _, _)
RunLength(s, i, chars) ==
    IF i > Len(s) \/ SubSeq(s, i, i) \notin chars THEN 0
    ELSE 1 + RunLength(s, i + 1, chars)

\* s from position i to its end matches runs of hexadecimal digits of the
\* lengths in groups, with an optional "-" between two runs
RECURSIVE MatchGroups(_, _, _)
MatchGroups(s, i, groups) ==
    IF groups = <<>> THEN i = Len(s) + 1
    ELSE LET j == i + Head(groups) IN
         /\ j - 1 <= Len(s)
         /\ \A k \in i..(j - 1) : SubSeq(s, k, k) \in HexDigits
         /\ IF Len(groups) > 1 /\ j <= Len(s) /\ SubSeq(s, j, j) = "-"
            THEN MatchGroups(s, j + 1, Tail(groups))
            ELSE MatchGroups(s, j, Tail(groups))

\* [0-9a-fA-F]{8}-?[0-9a-fA-F]{4}-?[0-9a-fA-F]{4}-?[0-9a-fA-F]{4}-?
\* [0-9a-fA-F]{12} from position i to the end of s
MatchUUID(s, i) == MatchGroups(s, i, <<8, 4, 4, 4, 12>>)

\* [0-9]+\.[0-9]+\. followed by the pattern above, over the whole of s
MatchFileName(s) ==
    LET a == RunLength(s, 1, DecimalDigits)
        b == RunLength(s, a + 2, DecimalDigits)
    IN  /\ a >= 1
        /\ a + 1 <= Len(s) /\ SubSeq(s, a + 1, a + 1) = "."
        /\ b >= 1
        /\ a + b + 2 <= Len(s) /\ SubSeq(s, a + b + 2, a + b + 2) = "."
        /\ MatchUUID(s, a + b + 3)

\* ValidateMensagoPath: "/", then any number of " " and a directory, then
\* any number of " " and a file name, and nothing more
ValidateMensagoPath(path) ==
    \/ path = "/"
    \/ LET parts == Split(path, " ") IN
       /\ parts[1] = "/"
       /\ \E k \in 1..Len(parts) :
             /\ \A i \in 2..k : MatchUUID(parts[i], 1)
             /\ \A i \in (k + 1)..Len(parts) : MatchFileName(parts[i])

\* filepath.Clean of a path without "." and ".." elements
Clean(path) ==
    LET elems == SelectSeq(Split(path, "/"), LAMBDA e : e # "")
        root == IF Len(path) > 0 /\ SubSeq(path, 1, 1) = "/" THEN "/" ELSE ""
        out == root \o Join(elems, "/")
    IN  IF out = "" THEN "." ELSE out

\* filepath.Join of two elements
filepathJoin(a, b) ==
    LET elems == SelectSeq(<<a, b>>, LAMBDA e : e # "") IN
    IF elems = <<>> THEN "" ELSE Clean(Join(elems, "/"))

\* Set with the Path assigned before the path is validated
SetAssignsFirst(ap, path, workspaceRoot) ==
    IF path = ""
    THEN [err |-> "", ap |-> [Path |-> "", LocalPath |-> ""]]
    ELSE IF ~ValidateMensagoPath(path)
    THEN [err |-> ErrBadPath, ap |-> [ap EXCEPT !.Path = path]]
    ELSE [err |-> "",
          ap |-> [Path |-> path,
                  LocalPath |->
                      filepathJoin(workspaceRoot,
                                   Join(Tail(Split(path, " ")), "/"))]]

\* LocalAnPath.Set(path) with global.workspace_dir being workspaceRoot:
\* [err, ap], the error returned and the object after the call
Set(ap, path, workspaceRoot) ==
    IF path = ""
    THEN [err |-> "", ap |-> [Path |-> "", LocalPath |-> ""]]
    ELSE IF ~ValidateMensagoPath(path)
    THEN [err |-> ErrBadPath, ap |-> ap]
    ELSE [err |-> "",
          ap |-> [Path |-> path,
                  LocalPath |->
                      filepathJoin(workspaceRoot,
                                   Join(Tail(Split(path, " ")), "/"))]]

\* Paths the pattern accepts
ValidPathInputs ==
    {"/",
     "/ 11111111-1111-1111-1111-111111111111",
     "/ 11111111-1111-1111-1111-111111111111 ABCDEF0123456789abcdef0123456789",
     "/ 11111111-1111-1111-1111-111111111111 1626.100.22222222-2222-2222-2222-222222222222",
     "/ 1626.100.2222222222222222-2222-222222222222"}

\* Paths it rejects
InvalidPathInputs ==
    {"/wsp",
     "11111111-1111-1111-1111-111111111111",
     "/ 11111111-1111-1111-1111-111111111111 ",
     "/  11111111-1111-1111-1111-111111111111",
     "/ 1111111-1111-1111-1111-111111111111",
     "/ 11111111-1111-1111-1111-11111111111g",
     "/ 1626.100.22222222-2222-2222-2222-222222222222 11111111-1111-1111-1111-111111111111",
     "/ 1626.22222222-2222-2222-2222-222222222222",
     "/ 11111111-1111-1111-1111-111111111111/new"}

PathInputs == {""} \cup ValidPathInputs \cup InvalidPathInputs

WorkspaceDirs == {DefaultWorkspaceDir, "/srv/mensago"}

PathFrame ==
    UNCHANGED <<sessions, workspaces, prereg, devices, failure_log, keycards,
                now, attempts, aliases, card, atb, pending, redeemed, plain,
                running, peer, config>>

CallSetPath(path) ==
    /\ LET o == Set(anpath, path, config.workspace_dir) IN
          /\ anpath' = o.ap
          /\ last' = [n |-> 1 - last.n, conn |-> "",
                      req |-> [Action |-> "SetPath", path |-> path],
                      code |-> "", err |-> o.err]
    /\ PathFrame

\* FromPath(path): Set with the Mensago path of another AnPath
CallFromPath(other) ==
    /\ LET o == Set(anpath, other.Path, config.workspace_dir) IN
          /\ anpath' = o.ap
          /\ last' = [n |-> 1 - last.n, conn |-> "",
                      req |-> [Action |-> "FromPath", path |-> other.Path],
                      code |-> "", err |-> o.err]
    /\ PathFrame

NextPath ==
    \/ \E path \in PathInputs : CallSetPath(path)
    \/ \E path \in {""} \cup ValidPathInputs :
          CallFromPath(Set(NoPath, path, config.workspace_dir).ap)

InitPath ==
    /\ sessions = [c \in Conns |->
                       [open |-> FALSE, PasswordFailures |-> 0,
                        LoginState |-> loginNoSession,
                        IsTerminating |-> FALSE, WID |-> ""]]
    /\ workspaces = InitialWorkspaces
    /\ prereg = {}
    /\ devices = {}
    /\ failure_log = {}
    /\ keycards = {}
    /\ now = 1
    /\ last = [n |-> 0, conn |-> "", req |-> [Action |-> ""], code |-> "",
               err |-> ""]
    /\ attempts = [k \in Wids \X Sources |-> [n |-> 0, at |-> 0]]
    /\ aliases = {}
    /\ card = NoEntry
    /\ atb = NoAlgoString
    /\ pending = [a \in Clients |-> NoAppend]
    /\ redeemed = {}
    /\ plain = [w \in UUIDs |-> ""]
    /\ running = TRUE
    /\ peer = [c \in Conns |-> "open"]
    /\ config \in {[setupConfig(6) EXCEPT !.workspace_dir = d] :
                     d \in WorkspaceDirs}
    /\ anpath = NoPath

SpecPath == InitPath /\ [][NextPath]_vars

----------------------------------------------------------------------------
(* Properties *)

\* A request was handled in this step
Stepped == last'.n # last.n
SteppedOn(action) == Stepped /\ last'.req.Action = action

\* The count and the lockout stamp stored for a failure key
KeyRows(fl, t, i, src) ==
    {r \in fl : r.type = t /\ r.id = i /\ r.source = src}
Count(fl, t, i, src) ==
    IF KeyRows(fl, t, i, src) = {} THEN 0
    ELSE (CHOOSE r \in KeyRows(fl, t, i, src) : TRUE).count
Lockout(fl, t, i, src) ==
    IF KeyRows(fl, t, i, src) = {} THEN NoLock
    ELSE (CHOOSE r \in KeyRows(fl, t, i, src) : TRUE).lockout_until

\* C1: a session enters ClientSession only from AwaitingDevice by a DEVICE
\* that succeeded, AwaitingDevice only from AwaitingPassword by a PASSWORD
\* that succeeded, and AwaitingPassword only from NoSession by a LOGIN that
\* succeeded; so no command takes NoSession or AwaitingPassword straight to
\* ClientSession.
Entered(c, state) ==
    sessions'[c].LoginState = state /\ sessions[c].LoginState # state
Succeeded(c, action) ==
    SteppedOn(action) /\ last'.conn = c /\ last'.code = 200
C1_LoginOrder ==
    [][\A c \in Conns :
         /\ Entered(c, loginClientSession)
              => /\ sessions[c].LoginState = loginAwaitingSessionID
                 /\ Succeeded(c, "DEVICE")
         /\ Entered(c, loginAwaitingSessionID)
              => /\ sessions[c].LoginState = loginAwaitingPassword
                 /\ Succeeded(c, "PASSWORD")
         /\ Entered(c, loginAwaitingPassword)
              => /\ sessions[c].LoginState = loginNoSession
                 /\ Succeeded(c, "LOGIN")]_vars

C1_Witness ==
    \E c \in Conns :
       /\ sessions[c].open
       /\ sessions[c].LoginState = loginClientSession
       /\ last.conn = c /\ last.req.Action = "DEVICE" /\ last.code = 200

\* C2: EXISTS, ORGCARD, USERCARD, ADDENTRY or ISCURRENT received in a state
\* other than ClientSession is answered 401 and changes neither the
\* session nor the store.
NeedClientSession == {"EXISTS", "ORGCARD", "USERCARD", "ADDENTRY", "ISCURRENT"}
C2_Unauthorized ==
    [][(/\ Stepped
        /\ last'.req.Action \in NeedClientSession
        /\ sessions[last'.conn].LoginState # loginClientSession)
       => /\ last'.code = 401
          /\ sessions' = sessions
          /\ UNCHANGED <<workspaces, prereg, devices, failure_log,
                         keycards>>]_vars

\* C3: once max_failures wrong PASSWORD attempts were made for a workspace
\* from a source, a LOGIN for it from that source before lockout_delay_min
\* has passed is answered 407 and does not reach AwaitingPassword.
C3_LockedOut ==
    [][\A c \in Conns :
         (/\ SteppedOn("LOGIN") /\ last'.conn = c
          /\ sessions[c].LoginState = loginNoSession
          /\ attempts[<<last'.req.wid, RemoteAddr[c]>>].n >= MaxFailures
          /\ now < attempts[<<last'.req.wid, RemoteAddr[c]>>].at
                     + LockoutDelay)
         => /\ last'.code = 407
            /\ sessions'[c].LoginState # loginAwaitingPassword]_vars

\* C4: a LOGIN in NoSession for a disabled workspace, or for one whose
\* lockout stamp is not yet past, is answered 407, closes the connection
\* and stores no WID; any other LOGIN for an existing workspace stores the
\* WID and moves to AwaitingPassword.
Disabled(wid) == \E r \in workspaces : r.wid = wid /\ r.status = "disabled"
Existing(wid) ==
    (\E r \in workspaces : r.wid = wid) \/ (\E r \in prereg : r.wid = wid)
LockedUntilLater(wid, ip) ==
    \E r \in failure_log :
       r.id = wid /\ r.source = ip /\ r.lockout_until # NoLock
       /\ r.lockout_until >= now
C4_Login ==
    [][\A c \in Conns :
         (/\ SteppedOn("LOGIN") /\ last'.conn = c
          /\ sessions[c].LoginState = loginNoSession
          /\ Existing(last'.req.wid))
         => IF Disabled(last'.req.wid)
               \/ LockedUntilLater(last'.req.wid, RemoteAddr[c])
            THEN /\ last'.code = 407
                 /\ ~sessions'[c].open
                 /\ sessions'[c].WID = ""
            ELSE /\ sessions'[c].WID = last'.req.wid
                 /\ sessions'[c].LoginState = loginAwaitingPassword]_vars

\* C5: a PASSWORD in AwaitingPassword with a wrong password adds one to the
\* count stored for ("password", wid, source) and to the session's failure
\* counter, is answered 402 and stays in AwaitingPassword; with the right
\* password it moves to AwaitingDevice and the failure log is unchanged.
RightPassword(wid, pw) ==
    \E r \in workspaces : r.wid = wid /\ verifyHash(pw, r.password).ok
C5_Password ==
    [][\A c \in Conns :
         (/\ SteppedOn("PASSWORD") /\ last'.conn = c
          /\ sessions[c].LoginState = loginAwaitingPassword)
         => IF RightPassword(sessions[c].WID, last'.req.pw)
            THEN /\ sessions'[c].LoginState = loginAwaitingSessionID
                 /\ failure_log' = failure_log
            ELSE /\ Count(failure_log', "password", sessions[c].WID,
                          RemoteAddr[c])
                      = Count(failure_log, "password", sessions[c].WID,
                              RemoteAddr[c]) + 1
                 /\ sessions'[c].PasswordFailures
                      = sessions[c].PasswordFailures + 1
                 /\ last'.code = 402
                 /\ sessions'[c].LoginState = loginAwaitingPassword]_vars

\* C6: every log_failure call for a key adds one to the count stored for
\* the key, the first creating the record with count 1; so the k-th call
\* leaves count k.
ValidCall ==
    last'.req.type \in FailTypes /\ last'.req.source \in Sources
C6_CountsCalls ==
    [][(SteppedOn("LogFailure") /\ ValidCall)
       => Count(failure_log', last'.req.type, last'.req.id, last'.req.source)
            = Count(failure_log, last'.req.type, last'.req.id,
                    last'.req.source) + 1]_vars

\* C7: a log_failure call that leaves the count below max_failures leaves
\* lockout_until unset, the call that brings it to max_failures sets
\* lockout_until to the time of the call plus lockout_delay_min, and a
\* record has lockout_until set iff its count is at least max_failures.
LockoutIffMax ==
    \A r \in failure_log : (r.lockout_until # NoLock) <=> (r.count >= MaxFailures)
C7_LockoutStamp ==
    /\ []LockoutIffMax
    /\ [][(SteppedOn("LogFailure") /\ ValidCall)
          => LET before == Count(failure_log, last'.req.type, last'.req.id,
                                 last'.req.source)
                 stamp == Lockout(failure_log', last'.req.type, last'.req.id,
                                  last'.req.source)
             IN  /\ before + 1 < MaxFailures => stamp = NoLock
                 /\ before + 1 = MaxFailures => stamp = now + LockoutDelay]_vars

\* C8: check_lockout on a record whose lockout_until is past returns empty
\* and removes the record; on a record whose lockout_until is not past it
\* returns the stamp and changes nothing.
C8_Expiry ==
    [][(/\ SteppedOn("CheckLockout")
        /\ Lockout(failure_log, last'.req.type, last'.req.id,
                   last'.req.source) # NoLock)
       => LET stamp == Lockout(failure_log, last'.req.type, last'.req.id,
                               last'.req.source)
          IN  IF stamp < now
              THEN /\ last'.code = NoLock /\ ~last'.err
                   /\ KeyRows(failure_log', last'.req.type, last'.req.id,
                              last'.req.source) = {}
              ELSE /\ last'.code = stamp /\ ~last'.err
                   /\ failure_log' = failure_log]_vars

\* C9: an append of an entry that breaks the chain (Previous-Hash, Index,
\* Custody-Signature or, for a user entry, Organization-Signature) fails
\* and leaves table keycards unchanged.
C9_ChainBroken ==
    [][(SteppedOn("AddEntry") /\ ~last'.req.chainOK)
       => (last'.err /\ keycards' = keycards)]_vars

\* C10: for every owner the stored index values are 1..N, and the
\* Previous-Hash of every entry above index 1 is the fingerprint stored for
\* the index before it.
C10_Chain ==
    \A r \in keycards :
       LET rows == {q \in keycards : q.owner = r.owner} IN
       /\ {q.index : q \in rows} = 1..Cardinality(rows)
       /\ r.index > 1
            => \E q \in rows :
                  /\ q.index = r.index - 1
                  /\ LineValue(r.entry, "Previous-Hash") = q.fingerprint

C15_AlgoString ==
    [][/\ SteppedOn("AlgoString.Set")
         => LET data == last'.req.data
                colon == Index(data, ":")
            IN  /\ colon >= 0
                     => /\ ~last'.err
                        /\ atb'.Prefix = SubSeq(data, 1, colon)
                        /\ atb'.Data = SubSeq(data, colon + 2, Len(data))
                        /\ AsString(atb') = data
                /\ (data # "" /\ colon < 0) => last'.err
       /\ SteppedOn("AlgoString.IsValid")
         => (last'.code <=> (atb.Prefix # "" /\ atb.Data # ""))]_vars

\* C12: after a successful sign(entry, name, key) the entry holds a
\* non-empty signature for name, every signature at a higher level is
\* empty, the Hash is empty when the hash level is at or above name's
\* level, and every signature at a lower level is unchanged.
C12_Sign ==
    [][(SteppedOn("Sign") /\ ~last'.err)
       => LET items == SignatureInfo(card)
              at == PositionOf(items, last'.req.sigtype)
          IN  /\ Get(card'.Signatures, last'.req.sigtype) # ""
              /\ \A i \in 1..Len(items) :
                    /\ (items[i].Type = SigInfoSignature
                        /\ items[i].Level > items[at].Level)
                       => Get(card'.Signatures, items[i].Name) = ""
                    /\ (items[i].Type = SigInfoHash
                        /\ items[i].Level >= items[at].Level)
                       => card'.Hash = ""
                    /\ (items[i].Type = SigInfoSignature
                        /\ items[i].Level < items[at].Level)
                       => Get(card'.Signatures, items[i].Name)
                            = Get(card.Signatures, items[i].Name)]_vars

\* C13: for an entry and a signature name of its type, sign with a private
\* key followed by verify_signature with the matching public key succeeds,
\* signing and verification computing the same bytes; verification fails
\* once a field the signature covers has changed.
Signed(eb, signingKey, sigtype) ==
    /\ ~Sign(eb, signingKey, sigtype).err
    /\ Get(eb.Signatures, sigtype)
         = Sign(eb, signingKey, sigtype).eb.Signatures[sigtype]
C13_SignVerify ==
    [][SteppedOn("VerifySignature")
       => \A k \in SigningKeys :
             (IsValid(k) /\ last'.req.key = VerifyKeyOf(k))
             => IF Signed(card, k, last'.req.sigtype)
                THEN /\ last'.code /\ ~last'.err
                     /\ SignScope(card, last'.req.sigtype)
                          = VerifyScope(card, last'.req.sigtype)
                ELSE ~last'.code]_vars

\* C14: parsing the serialized bytes of an entry gives back an entry with
\* the same type, fields, hash lines and signatures.
SameEntry(a, b) ==
    /\ a.Type = b.Type
    /\ \A i \in 1..Len(FieldNames(a)) :
          Get(a.Fields, FieldNames(a)[i]) = Get(b.Fields, FieldNames(a)[i])
    /\ a.PrevHash = b.PrevHash /\ a.Hash = b.Hash
    /\ \A i \in 1..Len(SignatureInfo(a)) :
          Get(a.Signatures, SignatureInfo(a)[i].Name)
            = Get(b.Signatures, SignatureInfo(a)[i].Name)
C14_RoundTrip ==
    [][(SteppedOn("Set") /\ last'.req.data = Bytes(card, -1))
       => (~last'.err /\ SameEntry(last'.code, card))]_vars

\* C16: resolve_address of <wid>/<domain> whose workspace row has
\* wtype=alias returns the wid_target the alias table records for that
\* wid, one hop followed: the result is not the alias wid itself.
LocalPart(addr) == Split(addr, "/")[1]
IsAliasAddress(addr) ==
    /\ Len(Split(addr, "/")) = 2
    /\ \E r \in workspaces : r.wid = LocalPart(addr) /\ r.wtype = "alias"
    /\ \E a \in aliases : a.wid_alias = LocalPart(addr)
C16_Alias ==
    [][(SteppedOn("ResolveAddress") /\ IsAliasAddress(last'.req.addr))
       => /\ ~last'.err
          /\ \E a \in aliases : /\ a.wid_alias = LocalPart(last'.req.addr)
                                 /\ last'.code = a.wid_target
          /\ last'.code # LocalPart(last'.req.addr)]_vars

\* C17: resolve_address on a valid address of an existing workspace that
\* is no alias returns the workspace's wid alone, not the address with
\* its domain, whether the local part is the wid or the uid.
IsPlainAddress(addr) ==
    /\ Len(Split(addr, "/")) = 2
    /\ MatchDomain(Split(addr, "/")[2])
    /\ ~MatchQuoteOrSpace(LocalPart(addr))
    /\ \E r \in workspaces :
          /\ r.wtype # "alias"
          /\ \/ r.wid = LocalPart(addr)
             \/ r.uid = LocalPart(addr) /\ ~ValidateUUID(LocalPart(addr))
C17_Resolve ==
    [][(SteppedOn("ResolveAddress") /\ IsPlainAddress(last'.req.addr))
       => /\ ~last'.err
          /\ \E r \in workspaces :
                /\ LocalPart(last'.req.addr) \in {r.wid, r.uid}
                /\ last'.code = r.wid]_vars

\* C18: after remove_workspace(wid), whatever set_status, set_password
\* and add_workspace calls follow, the row of wid keeps status deleted
\* and the password sentinel "-".
Removed(ws, wid) ==
    /\ \E r \in ws : r.wid = wid
    /\ \A r \in ws : r.wid = wid => /\ r.status = "deleted"
                                    /\ r.password = RemovedPassword
C18_Deleted ==
    [][\A wid \in UUIDs :
          Removed(workspaces, wid) => Removed(workspaces', wid)]_vars

\* C19: table workspaces never holds two rows with the same wid:
\* add_workspace with a wid already present, a soft-deleted one
\* included, fails and changes nothing, and remove_workspace keeps the
\* row's wid and uid in the table.
UniqueWid(ws) == \A r1, r2 \in ws : r1.wid = r2.wid => r1 = r2
PreregRows(pr, t) ==
    {r \in pr : /\ r.regcode = t[3] /\ r.domain = t[2]
                /\ IF t[4] THEN r.wid = t[1] ELSE r.uid = t[1]}
C20_Redeemed ==
    /\ [](\A t \in redeemed : PreregRows(prereg, t) = {})
    /\ [][(SteppedOn("REGCODE")
           /\ <<last'.req.id, last'.req.domain, last'.req.regcode,
                last'.req.iswid>> \in redeemed)
          => last'.code = "regcode not found"]_vars

\* C21: update_device(wid, devid, old_key, new_key) replaces the stored
\* key and succeeds only when the stored key equals old_key; when the
\* stored key differs or there is no such device it returns a failure and
\* leaves the device row unchanged, so a second call with the same old_key
\* after a rotation fails.
DeviceRows(dev, wid, devid) == {r \in dev : r.wid = wid /\ r.devid = devid}
C21_UpdateDevice ==
    [][SteppedOn("UpdateDevice")
       => LET q == last'.req
              rows == DeviceRows(devices, q.wid, q.devid)
          IN  IF \E r \in rows : r.devkey = q.oldkey
              THEN /\ ~last'.err
                   /\ \A r \in DeviceRows(devices', q.wid, q.devid) :
                         r.devkey = q.newkey
              ELSE /\ last'.err
                   /\ devices' = devices]_vars

C23_Cancel ==
    [][\A c \in Conns :
          (Stepped /\ last'.conn = c)
          => /\ (last'.req.Action = "CANCEL"
                 /\ sessions[c].LoginState
                      \in {loginAwaitingPassword, loginAwaitingSessionID})
                => sessions'[c].LoginState = loginNoSession
             /\ (last'.req.Action = "CANCEL"
                 /\ sessions[c].LoginState = loginClientSession)
                => sessions'[c].LoginState = loginClientSession
             /\ (last'.req.Action \in {"PASSWORD", "DEVICE"}
                 /\ sessions[c].LoginState = loginNoSession)
                => last'.code = 401]_vars

\* C24: get_org_entries(start, end) and get_user_entries(wid, start, end)
\* return, of the given owner only: the one entry of highest index when
\* start < 1; the entries with start <= index <= end in ascending order
\* of index when end >= 1; the entries with index >= start in ascending
\* order when end = 0.
Selected(kc, owner, startIndex, endIndex) ==
    LET rows == {r \in kc : r.owner = owner} IN
    IF startIndex < 1
    THEN {r \in rows : \A q \in rows : q.index <= r.index}
    ELSE IF endIndex >= 1
    THEN {r \in rows : startIndex <= r.index /\ r.index <= endIndex}
    ELSE {r \in rows : startIndex <= r.index}
C24_GetEntries ==
    [][(SteppedOn("GetEntries") /\ last'.req.endIndex >= 0)
       => LET q == last'.req
              sel == Selected(keycards, q.owner, q.startIndex, q.endIndex)
          IN  /\ Len(last'.code) = Cardinality(sel)
              /\ \A r \in sel :
                    last'.code[Cardinality({p \in sel : p.index <= r.index})]
                      = r.entry]_vars
C24_Witness ==
    /\ last.req.Action = "GetEntries"
    /\ last.req.startIndex = 2 /\ last.req.endIndex = 0
    /\ Len(last.code) = 2
    /\ \E r \in keycards : r.owner # last.req.owner /\ r.index >= 2

\* C25: preregister(wid, uid, domain) with a non-empty uid fails and adds
\* no row when a preregistration with the same uid exists in that domain;
\* after any sequence of preregister calls table prereg holds at most one
\* row for each non-empty (uid, domain).
C25_UniqueUid ==
    /\ [](\A r1, r2 \in prereg :
             (r1.uid # "" /\ r1.uid = r2.uid /\ r1.domain = r2.domain)
             => r1 = r2)
    /\ [][(SteppedOn("PREREG") /\ last'.req.uid # ""
           /\ \E r \in prereg : /\ r.uid = last'.req.uid
                                /\ r.domain = last'.req.domain)
          => (last'.err /\ prereg' = prereg)]_vars
C25_Witness ==
    /\ last.req.Action = "PREREG"
    /\ last.err
    /\ \E r \in prereg : /\ r.uid = last.req.uid /\ r.uid # ""
                         /\ r.domain = last.req.domain
                         /\ r.wid # last.req.wid

OtherRows(fl, t, i, src) == fl \ KeyRows(fl, t, i, src)
C26_OwnRecord ==
    [][LET q == last'.req IN
       /\ SteppedOn("LogFailure")
          => /\ OtherRows(failure_log', q.type, q.id, q.source)
                  = OtherRows(failure_log, q.type, q.id, q.source)
             /\ KeyRows(failure_log, q.type, q.id, q.source) = {}
                => \A r \in KeyRows(failure_log', q.type, q.id, q.source) :
                      r.count = 1
       /\ SteppedOn("CheckLockout")
          => /\ OtherRows(failure_log', q.type, q.id, q.source)
                  = OtherRows(failure_log, q.type, q.id, q.source)
             /\ last'.code = NoLock
                \/ \E r \in KeyRows(failure_log, q.type, q.id, q.source) :
                      r.lockout_until = last'.code]_vars

\* C28: no store error raised while a command is handled ends the server
\* process.
C28_KeepsRunning == running

\* C29: a turn whose read ends on the elapsed deadline marks the session
\* IsTerminating, closes the connection and ends the worker without calling
\* processCommand or touching the store; and processCommand is only ever
\* called for a session that is open and not marked.
C29_ReadDeadline ==
    [][\A c \in Conns :
          /\ (Stepped /\ last'.conn = c /\ last'.read = "timeout")
                => /\ sessions'[c].IsTerminating
                   /\ ~sessions'[c].open
                   /\ ~last'.handled
                   /\ failure_log' = failure_log
                   /\ devices' = devices
                   /\ sessions'[c].LoginState = sessions[c].LoginState
          /\ (Stepped /\ last'.conn = c /\ last'.handled)
                => /\ sessions[c].open
                   /\ ~sessions[c].IsTerminating]_vars

C29_Witness ==
    /\ last.read = "timeout"
    /\ \E c \in Conns :
          /\ last.conn = c
          /\ sessions[c].IsTerminating
          /\ ~sessions[c].open
          /\ sessions[c].LoginState = loginAwaitingPassword

\* C30: once the client has closed its end, or has sent QUIT, the worker
\* leaves its loop and closes the connection.
C30_WorkerEnds ==
    /\ \A c \in Conns :
          (sessions[c].open /\ peer[c] = "closed") ~> ~sessions[c].open
    /\ [][\A c \in Conns :
             (Stepped /\ last'.conn = c /\ last'.req.Action = "QUIT")
                => ~sessions'[c].open]_vars

\* C31: the Hash that GenerateHash leaves in the entry does not depend on
\* the Hash the entry held before the call, and a second call on the
\* unchanged entry leaves the same Hash.
C31_HashScope ==
    [][(SteppedOn("GenerateHash") /\ ~last'.err)
          => /\ card'.Hash =
                   GenerateHash([card EXCEPT !.Hash = ""],
                                last'.req.algorithm).eb.Hash
             /\ GenerateHash(card', last'.req.algorithm).eb.Hash
                   = card'.Hash]_vars

\* C32: for BLAKE3-256, BLAKE2B-256, SHA-256 and SHA3-256 GenerateHash
\* succeeds and leaves in Hash a string "ALGO:DATA" with that name as ALGO
\* and DATA not empty; for any other name it fails and leaves Hash as it
\* was.
C32_Algorithms ==
    [][SteppedOn("GenerateHash")
          => LET algorithm == last'.req.algorithm IN
             IF algorithm \in {"BLAKE3-256", "BLAKE2B-256", "SHA-256",
                               "SHA3-256"}
             THEN /\ ~last'.err
                  /\ HasPrefix(card'.Hash, algorithm \o ":")
                  /\ Len(card'.Hash) > Len(algorithm) + 1
             ELSE /\ last'.err
                  /\ card'.Hash = card.Hash]_vars

\* The place of a field name in the schema of the entry, 0 when it has none
SchemaIndex(eb, name) ==
    LET names == FieldNames(eb)
        hits == {i \in 1..Len(names) : names[i] = name}
    IN  IF hits = {} THEN 0 ELSE CHOOSE i \in hits : TRUE

\* The hash and signature lines an entry has, each with its level
LevelLines(eb) ==
    LET items == SignatureInfo(eb) IN
    UNION {IF items[i].Type = SigInfoHash
           THEN {<<items[i].Level, <<"Previous-Hash", eb.PrevHash>> >> :
                    x \in {y \in {1} : eb.PrevHash # ""}}
                \cup {<<items[i].Level, <<"Hash", eb.Hash>> >> :
                        x \in {y \in {1} : eb.Hash # ""}}
           ELSE {<<items[i].Level,
                   <<items[i].Name \o "-Signature",
                     eb.Signatures[items[i].Name]>> >> :
                    x \in {y \in {1} : Get(eb.Signatures, items[i].Name) # ""}}
           : i \in 1..Len(items)}

C34_Compliant ==
    [][SteppedOn("IsCompliant")
          => (last'.code <=>
                /\ \A i \in 1..Len(OrgRequiredFields) :
                      OrgRequiredFields[i] \in DOMAIN card.Fields
                /\ card.Hash # ""
                /\ Get(card.Signatures, "Organization") # "")]_vars

\* C35: SetExpiration writes into Expires the day d days after today as
\* YYYYMMDD, d being 365 (organization) or 90 (user) without an override
\* and min(n, 1095) for an override n; a new organization entry has the
\* Expires of 365 days ahead.
C35_Expires ==
    [][/\ (SteppedOn("SetExpiration") /\ ~last'.err)
             => LET n == last'.req.numdays
                    d == IF n < 0
                         THEN (IF card.Type = "Organization" THEN 365 ELSE 90)
                         ELSE IF n > 1095 THEN 1095 ELSE n
                IN  Get(card'.Fields, "Expires")
                       = Format(last'.req.today + d, "20060102")
       /\ SteppedOn("NewOrgEntry")
             => /\ ~last'.err
                /\ Get(card'.Fields, "Expires")
                      = Format(last'.req.today + 365, "20060102")]_vars

\* C39: after SetField or SetFields has changed a field, the entry holds no
\* signature and no hash.
C39_EditClears ==
    [][((SteppedOn("SetField") \/ SteppedOn("SetFields"))
          /\ ~last'.err /\ card'.Fields # card.Fields)
          => /\ card'.Hash = ""
             /\ \A k \in DOMAIN card'.Signatures :
                   card'.Signatures[k] = ""]_vars

\* C36: the row AddEntry stores for an organization entry has owner
\* 'organization', and GetOrgEntries(0, 0) returns the entry when it is the
\* newest; the row of a user entry has its Workspace-ID as owner and is
\* among the entries GetUserEntries returns for that wid and for no other.
C36_Owner ==
    [][(SteppedOn("AddEntry") /\ ~last'.err)
          => \A r \in keycards' \ keycards :
                IF r.entry[1] = <<"Organization">>
                THEN /\ r.owner = "organization"
                     /\ (\A q \in keycards' :
                            q.owner = r.owner => q.index <= r.index)
                           => GetOrgEntries(keycards', 0, 0).out
                                 = <<r.entry>>
                ELSE /\ r.owner = LineValue(r.entry, "Workspace-ID")
                     /\ \A wid \in Wids :
                           LET out == GetUserEntries(keycards', wid, 1, 0).out
                           IN  (\E i \in 1..Len(out) : out[i] = r.entry)
                                  <=> wid = r.owner]_vars

\* C37: when the random source fails, SetPassword and AddWorkspace return
\* an error and leave table workspaces as it was; no row ever holds the
\* empty string as its password hash.
C37_RandFailure ==
    /\ [][((SteppedOn("SetPassword") \/ SteppedOn("AddWorkspace"))
             /\ last'.req.salt = RandFailed)
             => /\ last'.err
                /\ workspaces' = workspaces]_vars
    /\ [](\A r \in workspaces : r.password # <<"">>)

\* C38: the word count in use is between 1 and 12, it is 6 when the
\* configured one is outside that range, and every registration code is
\* generated with a word count between 1 and 12.
C38_Wordcount ==
    /\ [](/\ config.wordcount \in 1..12
          /\ config.configured \notin 1..12 => config.wordcount = 6)
    /\ [][SteppedOn("PREREG") => last'.req.wordcount \in 1..12]_vars

\* The elements of a path of the local filesystem
LocalElements(path) == SelectSeq(Split(path, "/"), LAMBDA e : e # "")

\* C40: LocalAnPath.Set with an invalid path returns ErrBadPath and leaves
\* Path and LocalPath as they were; with a valid non-empty path it returns no
\* error, sets Path to it and LocalPath to the workspace directory followed
\* by the elements of the path; with the empty path it clears both.
C40_Set ==
    [][SteppedOn("SetPath") =>
          LET path == last'.req.path IN
          /\ path \in InvalidPathInputs =>
                /\ last'.err = ErrBadPath
                /\ anpath' = anpath
          /\ path \in ValidPathInputs =>
                /\ last'.err = ""
                /\ anpath'.Path = path
                /\ SubSeq(anpath'.LocalPath, 1, 1) = "/"
                /\ LocalElements(anpath'.LocalPath) =
                       LocalElements(config.workspace_dir)
                       \o Tail(Split(path, " "))
          /\ path = "" =>
                /\ last'.err = ""
                /\ anpath' = [Path |-> "", LocalPath |-> ""]]_vars

\* An invalid path was given to a LocalAnPath that holds a path
C40_Witness ==
    /\ last.req.Action = "SetPath"
    /\ last.req.path \in InvalidPathInputs
    /\ last.err = ErrBadPath
    /\ anpath.Path \in ValidPathInputs \ {"/"}
    /\ anpath.LocalPath # ""

====
